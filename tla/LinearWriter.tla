---------------------------- MODULE LinearWriter ----------------------------
(***************************************************************************)
(* The file behind linear storage: crates/aranya-runtime/src/storage/      *)
(* linear/libc/imp.rs.  One graph is one file with two root pages, A and   *)
(* B, and an append-only data section.  A `Writer` keeps the current root  *)
(* in memory; every append and every commit rewrites both root pages, one  *)
(* after the other, with an fsync after each.                              *)
(*                                                                         *)
(* The operating system is modelled by two views of every page: what a     *)
(* read returns now (`rootCache`, `dataCache`) and the set of contents the *)
(* page may have on the medium if the power failed now (`rootDisk`,        *)
(* `dataDisk`).  A write adds its content, and an unreadable page, to that *)
(* set; a successful fsync reduces every set to the cached content.        *)
(*                                                                         *)
(* The data section is a sequence of slots, one per appended item; slot 1  *)
(* is FREE_START.  A head is the slot of a segment (the command index in   *)
(* `Location` plays no part here).                                         *)
(***************************************************************************)
EXTENDS Naturals

CONSTANTS
    Items,          \* contents of appended facts and segments
    Hole,           \* a slot that was never written, or a torn one
    MaxSlots,       \* size of the modelled data section
    MaxGeneration,  \* bound on Root.generation (u64 in the code)
    MaxFaults,      \* bound on the number of faults
    Faults          \* which faults may happen

ASSUME ConstantsAssumption ==
    /\ Hole \notin Items
    /\ MaxSlots \in Nat \ {0}
    /\ MaxGeneration \in Nat
    /\ MaxFaults \in Nat
    /\ Faults \subseteq {"kill", "power", "io"}

FaultKinds == {"kill", "power", "io"}

Sides == {"A", "B"}
NoHead == 0                     \* Location::new(usize::MAX, usize::MAX)
Slots == 1..MaxSlots

\* A root page; `checksum` says whether Root::validate accepts it.
Root == [generation : Nat, head : 0..MaxSlots, free : 1..(MaxSlots + 1),
         checksum : BOOLEAN]

NewRoot == [generation |-> 0, head |-> NoHead, free |-> 1, checksum |-> FALSE]

\* A page that `load` or `validate` rejects: preallocated zeros or a torn write.
BadRoot == NewRoot

Valid(r) == r.checksum

VARIABLES
    exists,     \* the file was created
    pc,         \* where the process is; "closed" when no Writer exists
    op,         \* the Writer call in progress, or "none"
    root,       \* Writer.root
    item,       \* argument of the append in progress
    rootCache, rootDisk, dataCache, dataDisk,
    appended,   \* slots whose append returned Ok to the present Writer
    acked,      \* the root of the last commit that returned Ok (history)
    ackedData,  \* the data section at that time (history)
    attempted,  \* heads handed to commit since then (history)
    stable,     \* no root write was cut short since the last complete one (history)
    faults      \* number of faults so far, by kind

file == <<rootCache, rootDisk, dataCache, dataDisk>>
history == <<acked, ackedData, attempted>>
vars == <<exists, pc, op, root, item, file, appended, history, stable, faults>>

PCs == {"closed", "idle", "repairA", "repairB", "item",
        "dumpA", "syncA", "dumpB", "syncB"}

TypeOK ==
    /\ exists \in BOOLEAN
    /\ pc \in PCs
    /\ op \in {"none", "append", "commit"}
    /\ root \in Root
    /\ item \in Items \cup {Hole}
    /\ rootCache \in [Sides -> Root]
    /\ rootDisk \in [Sides -> SUBSET Root]
    /\ dataCache \in [Slots -> Items \cup {Hole}]
    /\ dataDisk \in [Slots -> SUBSET (Items \cup {Hole})]
    /\ appended \subseteq Slots
    /\ acked \in Root
    /\ ackedData \in [Slots -> Items \cup {Hole}]
    /\ attempted \subseteq Slots
    /\ stable \in BOOLEAN
    /\ faults \in [FaultKinds -> 0..MaxFaults]

Init ==
    /\ exists = FALSE
    /\ pc = "closed"
    /\ op = "none"
    /\ root = NewRoot
    /\ item = Hole
    /\ rootCache = [s \in Sides |-> BadRoot]
    /\ rootDisk = [s \in Sides |-> {BadRoot}]
    /\ dataCache = [s \in Slots |-> Hole]
    /\ dataDisk = [s \in Slots |-> {Hole}]
    /\ appended = {}
    /\ acked = NewRoot
    /\ ackedData = [s \in Slots |-> Hole]
    /\ attempted = {}
    /\ stable = TRUE
    /\ faults = [k \in FaultKinds |-> 0]
-----------------------------------------------------------------------------
(* Pages.                                                                  *)

\* File::dump: the page holds `r`; the medium may hold `r` or half of it.
WriteRoot(s, r) ==
    /\ rootCache' = [rootCache EXCEPT ![s] = r]
    /\ rootDisk' = [rootDisk EXCEPT ![s] = @ \cup {r, BadRoot}]

\* A dump of a root that stopped half way, because the call failed or the
\* process died: the page is intact or torn.
TearRoot(s) ==
    \/ UNCHANGED <<rootCache, rootDisk>>
    \/ WriteRoot(s, BadRoot)

WriteItem(s, i) ==
    /\ dataCache' = [dataCache EXCEPT ![s] = i]
    /\ dataDisk' = [dataDisk EXCEPT ![s] = @ \cup {i, Hole}]

TearItem(s) ==
    \/ UNCHANGED <<dataCache, dataDisk>>
    \/ WriteItem(s, Hole)

\* As SyncFile, with the fsync left out.
SyncNothing == UNCHANGED file

\* File::sync: everything written so far is on the medium.
SyncFile ==
    /\ rootDisk' = [s \in Sides |-> {rootCache[s]}]
    /\ dataDisk' = [s \in Slots |-> {dataCache[s]}]
    /\ UNCHANGED <<rootCache, dataCache>>

\* The page that the write in progress is changing.
DumpSide == IF pc \in {"dumpA", "repairA"} THEN "A" ELSE "B"
DumpingRoot == pc \in {"dumpA", "dumpB", "repairA", "repairB"}

\* The write in progress, if there is one, stops half way.
TearPages ==
    /\ IF pc = "item" THEN TearItem(root.free)
                      ELSE UNCHANGED <<dataCache, dataDisk>>
    /\ IF DumpingRoot THEN TearRoot(DumpSide)
                      ELSE UNCHANGED <<rootCache, rootDisk>>
-----------------------------------------------------------------------------
(* Opening and creating.                                                   *)

\* As MayCreate, without O_EXCL.
MayCreateAgain == TRUE

\* O_CREAT | O_EXCL
MayCreate == ~exists

\* FileManager::create and Writer::create: fallocate, nothing written.
Create ==
    /\ pc = "closed"
    /\ MayCreate
    /\ exists' = TRUE
    /\ pc' = "idle"
    /\ root' = NewRoot
    /\ UNCHANGED <<op, item, file, appended, history, stable, faults>>

Other(s) == IF s = "A" THEN "B" ELSE "A"

SameGeneration ==
    /\ Valid(rootCache["A"])
    /\ Valid(rootCache["B"])
    /\ rootCache["A"].generation = rootCache["B"].generation

\* The side whose root Writer::open uses: the valid one with the higher
\* generation, side A if they are equal.
Latest(s) ==
    /\ Valid(rootCache[s])
    /\ Valid(rootCache[Other(s)]) =>
           \/ rootCache[s].generation > rootCache[Other(s)].generation
           \/ SameGeneration /\ s = "A"

\* What Writer::open does next: nothing when the generations are equal, else
\* it overwrites the other side.
AfterOpenNoRepair(s) == "idle"

AfterOpen(s) ==
    IF SameGeneration THEN "idle"
    ELSE IF s = "A" THEN "repairB" ELSE "repairA"

\* Writer::open up to the choice of the root; with no valid root it returns
\* the error and nothing changes.
Open ==
    /\ pc = "closed"
    /\ exists
    /\ \E s \in Sides :
           /\ Latest(s)
           /\ root' = rootCache[s]
           /\ pc' = AfterOpen(s)
    /\ UNCHANGED <<exists, op, item, file, appended, history, stable, faults>>

\* The end of Writer::open: the corrupted or outdated side is overwritten.
\* There is no sync.
Repair ==
    /\ pc \in {"repairA", "repairB"}
    /\ WriteRoot(DumpSide, root)
    /\ pc' = "idle"
    /\ UNCHANGED <<exists, op, root, item, dataCache, dataDisk, appended, history,
                   stable, faults>>
-----------------------------------------------------------------------------
(* Writer::append and Writer::commit, both ending in write_root.           *)

\* As NextRoot, without counting.
NextRootSameGeneration(r) == [r EXCEPT !.checksum = TRUE]

\* write_root counts the generation up and computes the checksum; the bound
\* on the generation stands for the checked_add.
NextRoot(r) == [r EXCEPT !.generation = @ + 1, !.checksum = TRUE]

BeginAppend(i) ==
    /\ pc = "idle"
    /\ root.free \in Slots
    /\ root.generation < MaxGeneration
    /\ pc' = "item"
    /\ op' = "append"
    /\ item' = i
    /\ UNCHANGED <<exists, root, file, appended, history, stable, faults>>

\* append: the item is written at free_offset, and the root moves past it.
DumpItem ==
    /\ pc = "item"
    /\ WriteItem(root.free, item)
    /\ root' = NextRoot([root EXCEPT !.free = @ + 1])
    /\ pc' = "dumpA"
    /\ UNCHANGED <<exists, op, item, rootCache, rootDisk, appended, history,
                   stable, faults>>

\* As Committable, with the items whose append failed.
CommittableUnflushed == {h \in Slots : h < root.free}

\* LinearStorage::commit gets the location of a segment from LinearStorage::write,
\* which returns it only when append returned Ok.
Committable == appended

\* commit: the head changes in memory first.
BeginCommit(h) ==
    /\ pc = "idle"
    /\ h \in Committable
    /\ h > root.head
    /\ root.generation < MaxGeneration
    /\ pc' = "dumpA"
    /\ op' = "commit"
    /\ root' = NextRoot([root EXCEPT !.head = h])
    /\ attempted' = attempted \cup {h}
    /\ UNCHANGED <<exists, item, file, appended, acked, ackedData, stable, faults>>

\* write_root, one root page: dump ...
DumpRoot ==
    /\ pc \in {"dumpA", "dumpB"}
    /\ WriteRoot(DumpSide, root)
    /\ pc' = IF pc = "dumpA" THEN "syncA" ELSE "syncB"
    /\ UNCHANGED <<exists, op, root, item, dataCache, dataDisk, appended, history,
                   stable, faults>>

\* As AppendedAt, with the offset after the item.
AppendedAfter == root.free

\* The offset of the item that append wrote.
AppendedAt == root.free - 1

\* ... and flush.  After the flush of side B the call returns Ok.
SyncA ==
    /\ pc = "syncA"
    /\ SyncFile
    /\ pc' = "dumpB"
    /\ UNCHANGED <<exists, op, root, item, appended, history, stable, faults>>

SyncB ==
    /\ pc = "syncB"
    /\ SyncFile
    /\ pc' = "idle"
    /\ op' = "none"
    /\ item' = Hole
    /\ stable' = TRUE
    /\ IF op = "append"
       THEN /\ appended' = appended \cup {AppendedAt}
            /\ UNCHANGED history
       ELSE /\ acked' = root
            /\ ackedData' = dataCache
            /\ attempted' = {}
            /\ UNCHANGED appended
    /\ UNCHANGED <<exists, root, faults>>
-----------------------------------------------------------------------------
(* Faults.                                                                 *)

Fault(kind) ==
    /\ kind \in Faults
    /\ faults["kill"] + faults["power"] + faults["io"] < MaxFaults
    /\ faults' = [faults EXCEPT ![kind] = @ + 1]

\* pwrite or fsync fails: the call returns the error with the pages as far
\* as they were written.  Writer.root keeps what was assigned before.  A
\* failed open drops the Writer.
IoError ==
    /\ Fault("io")
    /\ pc \notin {"closed", "idle"}
    /\ TearPages
    /\ pc' = IF pc \in {"repairA", "repairB"} THEN "closed" ELSE "idle"
    /\ op' = "none"
    /\ item' = Hole
    /\ stable' = FALSE
    /\ UNCHANGED <<exists, root, appended, history>>

\* The process dies; the page cache survives it.
Kill ==
    /\ Fault("kill")
    /\ pc # "closed"
    /\ TearPages
    /\ pc' = "closed"
    /\ op' = "none"
    /\ root' = NewRoot
    /\ item' = Hole
    /\ appended' = {}
    /\ stable' = (stable /\ pc = "idle")
    /\ UNCHANGED <<exists, history>>

\* The machine stops: every page holds one of its possible contents.
PowerLoss ==
    /\ Fault("power")
    /\ exists
    /\ rootCache' \in {r \in [Sides -> UNION {rootDisk[s] : s \in Sides}] :
                          \A s \in Sides : r[s] \in rootDisk[s]}
    /\ rootDisk' = [s \in Sides |-> {rootCache'[s]}]
    /\ dataCache' \in {d \in [Slots -> UNION {dataDisk[s] : s \in Slots}] :
                          \A s \in Slots : d[s] \in dataDisk[s]}
    /\ dataDisk' = [s \in Slots |-> {dataCache'[s]}]
    /\ pc' = "closed"
    /\ op' = "none"
    /\ root' = NewRoot
    /\ item' = Hole
    /\ appended' = {}
    /\ stable' = (stable /\ pc \in {"idle", "closed"})
    /\ UNCHANGED <<exists, history>>

Next ==
    \/ Create \/ Open \/ Repair
    \/ \E i \in Items : BeginAppend(i)
    \/ DumpItem
    \/ \E h \in Slots : BeginCommit(h)
    \/ DumpRoot \/ SyncA \/ SyncB
    \/ IoError \/ Kill \/ PowerLoss

Spec == Init /\ [][Next]_vars
-----------------------------------------------------------------------------
(* Correctness.                                                            *)

\* Whatever the medium holds when the power fails, a root that open accepts
\* is not older than the last commit that returned Ok, and its head is that
\* commit's head or one a later commit was asked to store (write_root and
\* open: no acknowledged commit is rolled back, no head is made up).
RecoveryKeepsCommit ==
    \A s \in Sides : \A r \in rootDisk[s] :
        Valid(r) => /\ r.generation >= acked.generation
                    /\ r.head \in {acked.head} \cup attempted

\* Everything below the free offset of the last acknowledged commit is on the
\* medium exactly as it was then: append never reuses a slot that the
\* committed head can reach, whichever root the file was reopened with.
CommittedDataDurable ==
    acked.head # NoHead =>
        \A s \in Slots : s < acked.free => dataDisk[s] = {ackedData[s]}

\* No root that may be found after a power failure has a head whose segment
\* may be lost: append flushes the item before a commit can name it.
HeadNeverDangles ==
    \A s \in Sides : \A r \in rootDisk[s] :
        (Valid(r) /\ r.head # NoHead) =>
            /\ r.head < r.free
            /\ \E i \in Items : dataDisk[r.head] = {i}

\* As long as no write or sync fails, two valid roots with one generation are
\* the same root, however often the process is killed or the power fails.
\* Writer::open takes side A without comparing when the generations are equal.
SameGenerationSameRoot ==
    faults["io"] = 0 => \A r1 \in rootDisk["A"], r2 \in rootDisk["B"] :
        (Valid(r1) /\ Valid(r2) /\ r1.generation = r2.generation) => r1 = r2

\* After a root write that completed, one power failure at any point of the
\* next one leaves a valid root (write_root flushes one side before it
\* touches the other).
OneRootSurvives ==
    (stable /\ acked.head # NoHead) =>
        \A a \in rootDisk["A"], b \in rootDisk["B"] : Valid(a) \/ Valid(b)

\* A file with an acknowledged commit can be reopened after the process was
\* killed at any point, any number of times: open's repair and write_root
\* never leave both sides torn in the page cache.
KilledFileOpens ==
    (acked.head # NoHead /\ faults["io"] = 0 /\ faults["power"] = 0) =>
        \E s \in Sides : Valid(rootCache[s])
=============================================================================
