---------------------------- MODULE ShmChannels ----------------------------
(***************************************************************************)
(* The channel lists in shared memory: crates/aranya-fast-channels/src/    *)
(* shm/{shared,write,read}.rs.  There are two copies of the list, side A   *)
(* and side B.  The one writer changes the copy at write_off, swings       *)
(* read_off to it, repeats the change on the other copy and stores         *)
(* write_off.  Readers take the copy at read_off and cache the last key    *)
(* that they used, together with the generation of the list.               *)
(*                                                                         *)
(* A copy is locked with the mutex of FutexMutex while it is used, so the  *)
(* work on one copy is one step here; the offsets, and the generation that *)
(* a reader compares with its cache, are read without the lock.            *)
(***************************************************************************)
EXTENDS Naturals, Sequences

CONSTANTS
    Ids,            \* channel IDs
    Readers,        \* processes with a ReadState
    Cap,            \* ChanListData.cap
    MaxOps,         \* writer operations
    MaxSeals,       \* successful seals per reader
    GenModulus      \* generations before AtomicU32 wraps

ASSUME ConstantsAssumption ==
    /\ Cap \in Nat
    /\ MaxOps \in Nat
    /\ MaxSeals \in Nat
    /\ GenModulus \in Nat \ {0}

VARIABLES
    list,       \* ChanListData per side: gen and chans
    readOff, writeOff,
    wpc, wop,   \* the writer: where it is, and the operation
    otherOff,   \* the offset that swap_offsets returned to it
    ops,        \* writer operations so far; also the source of fresh keys
    rpc, rop,   \* the readers: where they are, and the call
    sealCache, openCache,   \* ReadState.last_seal, last_open
    answer,     \* what the last call of a reader returned
    window,     \* what it may return (history)
    seals,      \* successful seals (history)
    asserted    \* every debug_assert of set_seq held (history)

shm == <<list, readOff, writeOff>>
writer == <<wpc, wop, otherOff, ops>>
reader == <<rpc, rop, sealCache, openCache, answer>>
vars == <<shm, writer, reader, window, seals, asserted>>

Sides == {"A", "B"}
Directions == {"seal", "open", "both"}
None == [found |-> FALSE]

\* ChanDirection::matches
Matches(dir, op) == op = "any" \/ dir = "both" \/ dir = op

\* KeyId::new hashes both keys.  ShmChan::init draws the key of a missing
\* direction at random, so a channel of one direction gets another ID on
\* each side.
KeyId(dir, key, side) == <<key, IF dir = "both" THEN "both" ELSE side>>

\* ShmChan::init; key 0 marks an exhausted sequence number.
NewChan(id, dir, key, side) ==
    [id |-> id, dir |-> dir, key |-> key, keyId |-> KeyId(dir, key, side), seq |-> 0]

\* What a caller can tell about a channel; the sequence number and the key ID
\* are private to a side.
Public(c) == [id |-> c.id, dir |-> c.dir, key |-> c.key]
PublicList(l) == [i \in DOMAIN l |-> Public(l[i])]

\* ChanListData::find with a hint (0 for none): the index, or 0.
Fits(l, i, id, op) == i \in DOMAIN l /\ l[i].id = id /\ Matches(l[i].dir, op)

Find(l, id, hint, op) ==
    IF Fits(l, hint, id, op) THEN hint
    ELSE IF \E i \in DOMAIN l : Fits(l, i, id, op)
         THEN CHOOSE i \in DOMAIN l :
                /\ Fits(l, i, id, op)
                /\ \A j \in DOMAIN l : Fits(l, j, id, op) => i <= j
         ELSE 0

\* What a call for `id` that looks at list l answers.
Lookup(l, id, op) ==
    LET i == Find(l, id, 0, op)
    IN  IF i = 0 THEN None ELSE [found |-> TRUE, key |-> l[i].key]

\* ChanListData::swap_remove
SwapRemove(l, i) == SubSeq([l EXCEPT ![i] = l[Len(l)]], 1, Len(l) - 1)

\* The loop of ChanListData::remove_if: the list and the index after k rounds.
RemoveIf(l, Drop) ==
    LET Round[k \in 0..Len(l)] ==
            IF k = 0 THEN <<l, 1>>
            ELSE LET r == Round[k - 1]
                 IN  IF r[2] > Len(r[1]) THEN r
                     ELSE IF r[1][r[2]].id \in Drop
                          THEN <<SwapRemove(r[1], r[2]), r[2]>>
                          ELSE <<r[1], r[2] + 1>>
    IN  Round[Len(l)][1]

Bump(gen) == (gen + 1) % GenModulus

Idle == [kind |-> "none"]
-----------------------------------------------------------------------------
Init ==
    /\ list = [s \in Sides |-> [gen |-> 0, chans |-> <<>>]]
    /\ readOff = "A"
    /\ writeOff = "B"
    /\ wpc = "idle"
    /\ wop = Idle
    /\ otherOff = "A"
    /\ ops = 0
    /\ rpc = [r \in Readers |-> "idle"]
    /\ rop = [r \in Readers |-> Idle]
    /\ sealCache = [r \in Readers |-> None]
    /\ openCache = [r \in Readers |-> None]
    /\ answer = [r \in Readers |-> None]
    /\ window = [r \in Readers |-> {None}]
    /\ seals = [r \in Readers |-> 0]
    /\ asserted = TRUE
-----------------------------------------------------------------------------
(* The writer.                                                             *)

\* The change of the channels l of side s by the operation in progress.  add
\* writes at the index, and grows the list, as it was decided on the first
\* copy; remove uses the index found there.
Apply(o, l, s) ==
    CASE o.kind = "add" /\ o.grow ->
             Append(l, NewChan(o.id, o.dir, o.key, s))
      [] o.kind = "add" /\ ~o.grow ->
             [l EXCEPT ![o.idx] = NewChan(o.id, o.dir, o.key, s)]
      [] o.kind = "remove" -> SwapRemove(l, o.idx)
      [] o.kind = "remove_all" -> <<>>
      [] o.kind = "remove_if" -> RemoveIf(l, o.drop)

\* As ApplyGen, with a remove that leaves the generation.
ApplyGenNotOnRemove(o, d) ==
    IF o.kind \in {"remove", "remove_if"} THEN d.gen ELSE Bump(d.gen)

\* remove_if bumps the generation when it removes the first channel, the
\* other operations always.
ApplyGen(o, d) ==
    IF o.kind = "remove_if" /\ \A i \in DOMAIN d.chans : d.chans[i].id \notin o.drop
    THEN d.gen
    ELSE Bump(d.gen)

Changed(o, s) ==
    [list EXCEPT ![s] = [gen |-> ApplyGen(o, @), chans |-> Apply(o, @.chans, s)]]

\* The answers that readers in the middle of a call may now give as well.
Widen ==
    window' = [r \in Readers |->
        IF rpc[r] = "idle" THEN window[r]
        ELSE window[r] \cup {Lookup(list'[writeOff].chans, rop[r].id, rop[r].kind)}]

\* The first half: the copy at write_off.
First(o) ==
    /\ wop' = o
    /\ list' = Changed(o, writeOff)
    /\ wpc' = "swap"
    /\ ops' = ops + 1
    /\ Widen
    /\ UNCHANGED <<readOff, writeOff, otherOff, reader, seals, asserted>>

WriterReady == wpc = "idle" /\ ops < MaxOps

WriteList == list[writeOff].chans

HasRoom == Len(WriteList) < Cap

\* The search of add and remove ignores the direction.
Existing(id) == Find(WriteList, id, 0, "any")

\* add; OutOfSpace when the channel is new and the list is full.
Add(id, dir) ==
    /\ WriterReady
    /\ LET i == Existing(id)
       IN  /\ i # 0 \/ HasRoom
           /\ First([kind |-> "add", id |-> id, dir |-> dir, key |-> ops + 1,
                     grow |-> i = 0, idx |-> IF i = 0 THEN Len(WriteList) + 1 ELSE i])

\* remove; returns at once when the channel is not there.
Remove(id) ==
    /\ WriterReady
    /\ LET i == Existing(id)
       IN  /\ i # 0
           /\ First([kind |-> "remove", idx |-> i])

RemoveAll ==
    /\ WriterReady
    /\ First([kind |-> "remove_all"])

\* remove_if; returns at once when the list is empty.
RemoveWhere(drop) ==
    /\ WriterReady
    /\ WriteList # <<>>
    /\ First([kind |-> "remove_if", drop |-> drop])

\* AtomicUsize::swap returns the old read_off.
OffsetBeforeSwap == readOff

\* swap_offsets: readers now see the changed copy.
SwapOffsets ==
    /\ wpc = "swap"
    /\ readOff' = writeOff
    /\ otherOff' = OffsetBeforeSwap
    /\ wpc' = "second"
    /\ UNCHANGED <<list, writeOff, wop, ops, reader, window, seals, asserted>>

\* The second half: the same change to the copy that readers have left.
Second ==
    /\ wpc = "second"
    /\ list' = Changed(wop, otherOff)
    /\ wpc' = "store"
    /\ UNCHANGED <<readOff, writeOff, wop, otherOff, ops, reader, window, seals, asserted>>

\* As NextWriteOff, with the store left out.
SameWriteOff == writeOff

NextWriteOff == otherOff

StoreWriteOff ==
    /\ wpc = "store"
    /\ writeOff' = NextWriteOff
    /\ wpc' = "idle"
    /\ wop' = Idle
    /\ UNCHANGED <<list, readOff, otherOff, ops, reader, window, seals, asserted>>
-----------------------------------------------------------------------------
(* The readers.                                                            *)

\* seal, open or exists ("any") begins with load_read_list.
Start(r, kind, id) ==
    /\ rpc[r] = "idle"
    /\ kind = "seal" => seals[r] < MaxSeals
    /\ rop' = [rop EXCEPT ![r] = [kind |-> kind, id |-> id, side |-> readOff]]
    /\ rpc' = [rpc EXCEPT ![r] = IF kind = "any" THEN "lookup" ELSE "loaded"]
    /\ window' = [window EXCEPT ![r] =
           {Lookup(list[readOff].chans, id, kind)}
               \cup (IF wpc = "swap" THEN {Lookup(WriteList, id, kind)} ELSE {})]
    /\ UNCHANGED <<shm, writer, sealCache, openCache, answer, seals, asserted>>

Cache(r) == IF rop[r].kind = "seal" THEN sealCache[r] ELSE openCache[r]

CachedId(r) == Cache(r).found /\ Cache(r).id = rop[r].id

\* As SameGen, without a look at the generation.
AnyGen(r) == TRUE

\* The generation that the reader compares without holding the lock.
SameGen(r) == Cache(r).gen = list[rop[r].side].gen

Finish(r, a) ==
    /\ rpc' = [rpc EXCEPT ![r] = "idle"]
    /\ rop' = [rop EXCEPT ![r] = Idle]
    /\ answer' = [answer EXCEPT ![r] = a]

\* The cached key is used; a seal that succeeds counts the sequence number up.
CacheHit(r) ==
    /\ rpc[r] = "loaded"
    /\ CachedId(r)
    /\ SameGen(r)
    /\ Finish(r, [found |-> TRUE, key |-> Cache(r).key])
    /\ \/ /\ rop[r].kind = "seal"
          /\ sealCache' = [sealCache EXCEPT ![r].seq = @ + 1]
          /\ seals' = [seals EXCEPT ![r] = @ + 1]
       \/ UNCHANGED <<sealCache, seals>>
    /\ UNCHANGED <<shm, writer, openCache, window, asserted>>

CacheMiss(r) ==
    /\ rpc[r] = "loaded"
    /\ ~(CachedId(r) /\ SameGen(r))
    /\ rpc' = [rpc EXCEPT ![r] = "lookup"]
    /\ UNCHANGED <<shm, writer, rop, sealCache, openCache, answer, window, seals, asserted>>

\* The index of the channel in the list that the reader has locked.
Located(r) ==
    Find(list[rop[r].side].chans, rop[r].id,
         IF rop[r].kind # "any" /\ CachedId(r) THEN Cache(r).idx ELSE 0, rop[r].kind)

Hit(r, i) == [found |-> TRUE, key |-> list[rop[r].side].chans[i].key]

\* The cache entry for the channel at i; `used` successful uses of its key.
Entry(r, i, used) ==
    LET c == list[rop[r].side].chans[i]
    IN  [found |-> TRUE, id |-> rop[r].id, key |-> c.key, keyId |-> c.keyId,
         gen |-> list[rop[r].side].gen, idx |-> i, seq |-> c.seq + used]

NotFound(r) ==
    /\ rpc[r] = "lookup"
    /\ Located(r) = 0
    /\ Finish(r, None)
    /\ UNCHANGED <<shm, writer, sealCache, openCache, window, seals, asserted>>

\* exists finds the channel, or the caller's function fails: no cache changes.
FoundOnly(r) ==
    /\ rpc[r] = "lookup"
    /\ Located(r) # 0
    /\ Finish(r, Hit(r, Located(r)))
    /\ UNCHANGED <<shm, writer, sealCache, openCache, window, seals, asserted>>

FoundOpen(r) ==
    /\ rpc[r] = "lookup"
    /\ rop[r].kind = "open"
    /\ Located(r) # 0
    /\ Finish(r, Hit(r, Located(r)))
    /\ openCache' = [openCache EXCEPT ![r] = Entry(r, Located(r), 0)]
    /\ UNCHANGED <<shm, writer, sealCache, window, seals, asserted>>

\* Where the sequence number of the evicted cache entry is written back, in
\* the list that is locked; 0 when the channel or its key is gone.
WriteBack(r) ==
    LET old == sealCache[r]
        l == list[rop[r].side].chans
        j == IF old.found THEN Find(l, old.id, old.idx, "seal") ELSE 0
    IN  IF j # 0 /\ l[j].keyId = old.keyId THEN j ELSE 0

FoundSeal(r) ==
    /\ rpc[r] = "lookup"
    /\ rop[r].kind = "seal"
    /\ Located(r) # 0
    /\ Finish(r, Hit(r, Located(r)))
    /\ sealCache' = [sealCache EXCEPT ![r] = Entry(r, Located(r), 1)]
    /\ seals' = [seals EXCEPT ![r] = @ + 1]
    /\ IF WriteBack(r) # 0
       THEN /\ list' = [list EXCEPT ![rop[r].side].chans[WriteBack(r)].seq = sealCache[r].seq]
            /\ asserted' = (asserted /\ sealCache[r].seq >
                                list[rop[r].side].chans[WriteBack(r)].seq)
       ELSE UNCHANGED <<list, asserted>>
    /\ UNCHANGED <<readOff, writeOff, writer, openCache, window>>

\* The writer has done all its operations.
Terminating == wpc = "idle" /\ ops = MaxOps /\ UNCHANGED vars

Next ==
    \/ \E id \in Ids : \/ \E dir \in Directions : Add(id, dir)
                       \/ Remove(id)
    \/ RemoveAll
    \/ \E drop \in SUBSET Ids : RemoveWhere(drop)
    \/ SwapOffsets \/ Second \/ StoreWriteOff
    \/ \E r \in Readers :
          \/ \E kind \in {"seal", "open", "any"}, id \in Ids : Start(r, kind, id)
          \/ CacheHit(r) \/ CacheMiss(r) \/ NotFound(r)
          \/ FoundOnly(r) \/ FoundOpen(r) \/ FoundSeal(r)
    \/ Terminating

Spec == Init /\ [][Next]_vars
-----------------------------------------------------------------------------
(* Correctness.                                                            *)

\* Between two operations of the writer the copies hold the same channels in
\* the same order and have the same generation; remove relies on the order
\* when it uses an index of one copy on the other.
SidesAgree ==
    wpc = "idle" =>
        /\ readOff # writeOff
        /\ list["A"].gen = list["B"].gen
        /\ PublicList(list["A"].chans) = PublicList(list["B"].chans)

\* seal, open and exists answer what was true at some point of the call, or
\* what an operation of the writer that overlaps the call makes true: a
\* channel is never found by a call that begins after its removal returned,
\* with or without the cache, and always by one that begins after its add.
RegularReads ==
    \A r \in Readers : rpc[r] = "idle" => answer[r] \in window[r]

\* An entry that seal or open would use without a lock is the channel's
\* current key in the copy whose generation was compared.
CacheSound ==
    \A r \in Readers : \A c \in {sealCache[r], openCache[r]} : \A s \in Sides :
        (c.found /\ c.gen = list[s].gen) =>
            /\ c.idx \in DOMAIN list[s].chans
            /\ list[s].chans[c.idx].id = c.id
            /\ list[s].chans[c.idx].key = c.key

\* ShmChan::set_seq: debug_assert!(seq.to_u64() > self.seq.into())
SetSeqGrows == asserted
=============================================================================
