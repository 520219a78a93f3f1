------------------------- MODULE LockAndStoreProofs -------------------------
(***************************************************************************)
(* What the fast channels rest on.  FutexMutex for any set of threads:     *)
(* mutual exclusion, no lost wakeup and the refinement of AbstractLock.    *)
(* What a call of the file key store returns, for any number of threads,   *)
(* identifiers and faults.                                                 *)
(***************************************************************************)
EXTENDS FutexMutex, FsKeyStore, TLAPS

-----------------------------------------------------------------------------
(* The lock.                                                               *)

\* Holders has at most one member, and the key shows it.
KeyInv ==
    /\ \A t, u \in Threads : pc[t] = "critical" /\ pc[u] = "critical" => t = u
    /\ key = UNLOCKED <=> \A t \in Threads : pc[t] # "critical"

\* Who has to see to it that a sleeper is woken.
Witness(t) ==
    \/ pc[t] = "wake"
    \/ pc[t] \in {"load", "cas", "swap", "wait"} /\ wait[t] = SLEEPING

\* Nobody sleeps in the spinning implementation.
SleepInv ==
    /\ casMutex => /\ key # SLEEPING
                   /\ \A t \in Threads : pc[t] \in {"out", "lock", "critical"}
    /\ \A t \in Threads : pc[t] \in {"wait", "asleep"} => wait[t] = SLEEPING
    /\ \/ \A t \in Threads : pc[t] # "asleep"
       \/ key = SLEEPING
       \/ \E t \in Threads : Witness(t)

IInv == TypeOK /\ KeyInv /\ SleepInv

USE ConstantsAssumption DEF UNLOCKED, LOCKED, SLEEPING

\* No thread has called lock yet.
LEMMA InitInv == Init => IInv
BY DEF Init, IInv, TypeOK, PCs, KeyInv, SleepInv

\* Every atomic operation and system call keeps the types.
LEMMA TypeStep == TypeOK /\ [Next]_vars => TypeOK'
<1> SUFFICES ASSUME TypeOK, [Next]_vars PROVE TypeOK'
  OBVIOUS
<1> USE DEF TypeOK, Goto
<1>1. ASSUME NEW t \in Threads, Call(t) PROVE TypeOK'
  BY <1>1 DEF Call, PCs
<1>2. ASSUME NEW t \in Threads, FastPath(t) PROVE TypeOK'
  BY <1>2 DEF FastPath, PCs
<1>3. ASSUME NEW t \in Threads, Contended(t) PROVE TypeOK'
  BY <1>3 DEF Contended, ExchangeFails, PCs
<1>4. ASSUME NEW t \in Threads, Load(t) PROVE TypeOK'
  BY <1>4 DEF Load, PCs
<1>5. ASSUME NEW t \in Threads, Cas(t) PROVE TypeOK'
  BY <1>5 DEF Cas, KeyTaken, PCs
<1>6. ASSUME NEW t \in Threads, Swap(t) PROVE TypeOK'
  BY <1>6 DEF Swap, PCs
<1>7. ASSUME NEW t \in Threads, FutexWait(t) PROVE TypeOK'
  BY <1>7 DEF FutexWait, PCs
<1>8. ASSUME NEW t \in Threads, SpuriousWake(t) PROVE TypeOK'
  BY <1>8 DEF SpuriousWake, PCs
<1>9. ASSUME NEW t \in Threads, Unlock(t) PROVE TypeOK'
  BY <1>9 DEF Unlock, KeyAfterUnlock, PCs
<1>10. ASSUME NEW t \in Threads, FutexWake(t) PROVE TypeOK'
  BY <1>10 DEF FutexWake, Asleep, PCs
<1>11. CASE UNCHANGED vars
  BY <1>11 DEF vars
<1> QED
  BY <1>1, <1>2, <1>3, <1>4, <1>5, <1>6, <1>7, <1>8, <1>9, <1>10, <1>11
     DEF Next, Step, SpinLoop, Terminating

\* The key changes hands one thread at a time.
LEMMA KeyStep == TypeOK /\ KeyInv /\ [Next]_vars => KeyInv'
<1> SUFFICES ASSUME TypeOK, KeyInv, [Next]_vars PROVE KeyInv'
  OBVIOUS
<1> USE DEF TypeOK, KeyInv, Goto
<1>1. ASSUME NEW t \in Threads, Call(t) \/ Contended(t) \/ Load(t) \/ FutexWait(t) \/ SpuriousWake(t)
      PROVE  KeyInv'
  BY <1>1 DEF Call, Contended, Load, FutexWait, SpuriousWake
<1>2. ASSUME NEW t \in Threads, FastPath(t) PROVE KeyInv'
  BY <1>2 DEF FastPath, ExchangeSucceeds
<1>3. ASSUME NEW t \in Threads, Cas(t) PROVE KeyInv'
  BY <1>3 DEF Cas, ExchangeSucceeds, ExchangeFails, KeyTaken
<1>4. ASSUME NEW t \in Threads, Swap(t) PROVE KeyInv'
  BY <1>4 DEF Swap, TakenBySwap
<1>5. ASSUME NEW t \in Threads, Unlock(t) PROVE KeyInv'
  BY <1>5 DEF Unlock, KeyAfterUnlock
<1>6. ASSUME NEW t \in Threads, FutexWake(t) PROVE KeyInv'
  BY <1>6 DEF FutexWake, Asleep
<1>7. CASE UNCHANGED vars
  BY <1>7 DEF vars
<1> QED
  BY <1>1, <1>2, <1>3, <1>4, <1>5, <1>6, <1>7 DEF Next, Step, SpinLoop, Terminating

\* Somebody always remembers that a thread sleeps.
LEMMA SleepStep == IInv /\ [Next]_vars => SleepInv'
<1> SUFFICES ASSUME TypeOK, KeyInv, SleepInv, [Next]_vars PROVE SleepInv'
  BY DEF IInv
<1> USE DEF TypeOK, KeyInv, SleepInv, Witness, Goto
<1>1. ASSUME NEW t \in Threads, Call(t) PROVE SleepInv'
  BY <1>1 DEF Call
<1>2. ASSUME NEW t \in Threads, FastPath(t) PROVE SleepInv'
  BY <1>2 DEF FastPath, ExchangeSucceeds
<1>3. ASSUME NEW t \in Threads, Contended(t) PROVE SleepInv'
  BY <1>3 DEF Contended
<1>4. ASSUME NEW t \in Threads, Load(t) PROVE SleepInv'
  BY <1>4 DEF Load
<1>5. ASSUME NEW t \in Threads, Cas(t) PROVE SleepInv'
  BY <1>5 DEF Cas, ExchangeSucceeds, ExchangeFails, KeyTaken
<1>6. ASSUME NEW t \in Threads, Swap(t) PROVE SleepInv'
  BY <1>6 DEF Swap, TakenBySwap
<1>7. ASSUME NEW t \in Threads, FutexWait(t) PROVE SleepInv'
  BY <1>7 DEF FutexWait, FutexSleeps
<1>8. ASSUME NEW t \in Threads, SpuriousWake(t) PROVE SleepInv'
  BY <1>8 DEF SpuriousWake
<1>9. ASSUME NEW t \in Threads, Unlock(t) PROVE SleepInv'
  BY <1>9 DEF Unlock, KeyAfterUnlock
<1>10. ASSUME NEW t \in Threads, FutexWake(t) PROVE SleepInv'
  BY <1>10 DEF FutexWake, Asleep
<1>11. CASE UNCHANGED vars
  BY <1>11 DEF vars
<1> QED
  BY <1>1, <1>2, <1>3, <1>4, <1>5, <1>6, <1>7, <1>8, <1>9, <1>10, <1>11
     DEF Next, Step, SpinLoop, Terminating

\* The invariant holds in every reachable state.
THEOREM Invariance == Spec => []IInv
<1>1. IInv /\ [Next]_vars => IInv'
  BY TypeStep, KeyStep, SleepStep DEF IInv
<1> QED
  BY <1>1, InitInv, PTL DEF Spec

\* No two guards of one mutex exist at once, for any number of threads.
THEOREM MutualExclusionHolds == Spec => []MutualExclusion
<1>1. IInv => MutualExclusion
  BY DEF IInv, KeyInv, MutualExclusion, Holders
<1> QED
  BY <1>1, Invariance, PTL

\* The key shows whether the lock is held; unlock finds it taken.
THEOREM KeyTellsHolderHolds == Spec => []KeyTellsHolder
<1>1. IInv => KeyTellsHolder
  BY DEF IInv, KeyInv, KeyTellsHolder, Holders
<1> QED
  BY <1>1, Invariance, PTL

\* A sleeping thread is never forgotten.
THEOREM NoLostWakeupHolds == Spec => []NoLostWakeup
<1>1. IInv => NoLostWakeup
  BY DEF IInv, SleepInv, Witness, NoLostWakeup, Asleep
<1> QED
  BY <1>1, Invariance, PTL

\* The mutex implements the abstract lock: every step is an acquire or a
\* release by one thread, or leaves the holder alone.
THEOREM LockRefinementHolds == Spec => LockRefinement
<1>1. Init => Lock!Init
  BY DEF Init, Lock!Init, Holders
<1>2. ASSUME IInv, [Next]_vars PROVE [Lock!Next]_Holders
  <2> USE DEF IInv, TypeOK, KeyInv, Holders, Goto
  <2>1. ASSUME NEW t \in Threads, Call(t) \/ Contended(t) \/ Load(t) \/ FutexWait(t) \/ SpuriousWake(t)
        PROVE  UNCHANGED Holders
    BY <1>2, <2>1 DEF Call, Contended, Load, FutexWait, SpuriousWake
  <2>2. ASSUME NEW t \in Threads, FastPath(t) PROVE Lock!Acquire(t)
    BY <1>2, <2>2 DEF FastPath, ExchangeSucceeds, Lock!Acquire
  <2>3. ASSUME NEW t \in Threads, Cas(t) PROVE Lock!Acquire(t) \/ UNCHANGED Holders
    BY <1>2, <2>3 DEF Cas, ExchangeSucceeds, ExchangeFails, Lock!Acquire
  <2>4. ASSUME NEW t \in Threads, Swap(t) PROVE Lock!Acquire(t) \/ UNCHANGED Holders
    BY <1>2, <2>4 DEF Swap, TakenBySwap, Lock!Acquire
  <2>5. ASSUME NEW t \in Threads, Unlock(t) PROVE Lock!Release(t)
    BY <1>2, <2>5 DEF Unlock, Lock!Release
  <2>6. ASSUME NEW t \in Threads, FutexWake(t) PROVE UNCHANGED Holders
    BY <1>2, <2>6 DEF FutexWake, Asleep
  <2>7. CASE UNCHANGED vars
    BY <2>7 DEF vars
  <2> QED
    BY <1>2, <2>1, <2>2, <2>3, <2>4, <2>5, <2>6, <2>7
       DEF Next, Step, SpinLoop, Terminating, Lock!Next
<1> QED
  BY <1>1, <1>2, Invariance, PTL DEF Spec, LockRefinement, Lock!Spec

HIDE ConstantsAssumption DEF UNLOCKED, LOCKED, SLEEPING

-----------------------------------------------------------------------------
(* The key store.                                                          *)


-----------------------------------------------------------------------------
(* Sequences of any elements.                                              *)

\* A sequence is a function.
LEMMA SeqFunction ==
  ASSUME NEW S, NEW s \in Seq(S)
  PROVE  Len(s) \in Nat /\ DOMAIN s = 1 .. Len(s) /\ s \in [1 .. Len(s) -> S]
  OBVIOUS

\* Another element in place of one.
LEMMA SeqReplace ==
  ASSUME NEW S, NEW s \in Seq(S), NEW i \in 1 .. Len(s), NEW x \in S
  PROVE  [s EXCEPT ![i] = x] \in Seq(S) /\ Len([s EXCEPT ![i] = x]) = Len(s)
  OBVIOUS

\* One more element at the end.
LEMMA SeqAppend ==
  ASSUME NEW S, NEW s \in Seq(S), NEW x \in S
  PROVE  LET longer == Append(s, x)
         IN /\ longer \in Seq(S) /\ Len(longer) = Len(s) + 1
            /\ longer[Len(s) + 1] = x
            /\ \A i \in 1 .. Len(s) : longer[i] = s[i]
  OBVIOUS

-----------------------------------------------------------------------------
(* The key store: what a call returns is the key that it asked for.        *)

CallFields == {"op", "id", "key", "at", "fd", "vacant", "dirty", "result"}

CallSound(c, n) ==
  /\ c = [x \in CallFields |-> c[x]]
  /\ c.fd \in 0 .. n
  /\ c.at \in {"lock", "write", "sync", "drop", "unlink", "read"} => c.fd # 0
  /\ c.at # "done" => c.id \in Ids
  /\ c.op = "insert" => c.key = c.id
  /\ c.at = "write" => c.op = "insert"
  /\ c.result[1] = "key" => c.result[2] = c.id

FileSet == [size : {"empty", "torn", "whole"}, key : Ids \cup {Absent}]

\* `name' is the identifier that each file was created for.  It keeps it when the
\* name is unlinked and given to another file.
Named(name) ==
  /\ name \in [1 .. Len(files) -> Ids]
  /\ \A id \in Ids : dir[id] # 0 => name[dir[id]] = id
  /\ \A t \in Callers : calls[t].fd # 0 => name[calls[t].fd] = calls[t].id
  /\ \A f \in 1 .. Len(files) : files[f].size = "whole" => files[f].key = name[f]

StoreInv ==
  /\ files \in Seq(FileSet)
  /\ dir \in [Ids -> 0 .. Len(files)]
  /\ calls = [t \in Callers |-> calls[t]]
  /\ \A t \in Callers : CallSound(calls[t], Len(files))
  /\ \E name : Named(name)

\* A file that is whole has the key that its name stands for, so what get and
\* remove read is the key of the call's identifier (Shared and Exclusive of
\* fs_keystore/store.rs).
LEMMA ContentsSound ==
  ASSUME StoreInv, NEW t \in Callers, calls[t].fd # 0
  PROVE  Contents(calls[t].fd)[1] = "key" => Contents(calls[t].fd)[2] = calls[t].id
<1> DEFINE f == calls[t].fd
<1>1. f \in 1 .. Len(files)
  BY SeqFunction DEF StoreInv, CallSound
<1>2. PICK name : Named(name)
  BY DEF StoreInv
<1>3. files[f].size = "whole" => files[f].key = calls[t].id
  BY <1>1, <1>2 DEF Named
<1> HIDE DEF f
<1>4. files[f].size # "whole" => Contents(f)[1] # "key"
  BY DEF Contents
<1>5. files[f].size = "whole" => Contents(f)[2] = files[f].key
  BY DEF Contents
<1> QED
  BY <1>3, <1>4, <1>5 DEF f

\* A step of one call keeps the store sound if it creates no file, unlinks names
\* only, and writes nothing but the key of the call's identifier into its file.
LEMMA CallKeepsStore ==
  ASSUME StoreInv, NEW t \in Callers, NEW c, CallSound(c, Len(files)),
         calls' = [u \in Callers |-> calls'[u]], calls'[t] = c,
         \A u \in Callers \ {t} : calls'[u] = calls[u],
         c.fd # 0 => (c.fd = calls[t].fd /\ c.id = calls[t].id) \/ (c.id \in Ids /\ c.fd = dir[c.id]),
         dir' \in [Ids -> 0 .. Len(files)],
         \A id \in Ids : dir'[id] \in {0, dir[id]},
         files' \in Seq(FileSet), Len(files') = Len(files),
         \A f \in 1 .. Len(files) : files'[f].size = "whole" =>
            \/ files[f].size = "whole" /\ files'[f].key = files[f].key
            \/ f = calls[t].fd /\ files'[f].key = calls[t].id
  PROVE  StoreInv'
<1>1. calls'[t] = c /\ \A u \in Callers \ {t} : calls'[u] = calls[u]
  OBVIOUS
<1>2. calls' = [u \in Callers |-> calls'[u]]
  OBVIOUS
<1>3. \A u \in Callers : CallSound(calls'[u], Len(files'))
  BY <1>1 DEF StoreInv
<1>4. PICK name : Named(name)
  BY DEF StoreInv
<1>5. Len(files) \in Nat
  BY SeqFunction DEF StoreInv
<1>6. \A id \in Ids : dir'[id] # 0 => name[dir'[id]] = id
  BY <1>4 DEF Named
<1>7. ASSUME NEW u \in Callers, calls'[u].fd # 0 PROVE name[calls'[u].fd] = calls'[u].id
  <2>1. CASE u # t
    BY <1>1, <1>4, <1>7, <2>1 DEF Named
  <2>2. CASE u = t
    <3>1. c.fd # 0
      BY <1>1, <1>7, <2>2
    <3>2. CASE c.fd = calls[t].fd /\ c.id = calls[t].id
      BY <1>1, <1>4, <2>2, <3>1, <3>2 DEF Named
    <3>3. CASE c.id \in Ids /\ c.fd = dir[c.id]
      BY <1>1, <1>4, <2>2, <3>1, <3>3 DEF Named
    <3> QED
      BY <3>1, <3>2, <3>3
  <2> QED
    BY <2>1, <2>2
<1>8. ASSUME NEW f \in 1 .. Len(files), files'[f].size = "whole" PROVE files'[f].key = name[f]
  <2>1. CASE files[f].size = "whole" /\ files'[f].key = files[f].key
    BY <1>4, <2>1 DEF Named
  <2>2. CASE f = calls[t].fd /\ files'[f].key = calls[t].id
    BY <1>4, <1>5, <2>2 DEF Named
  <2> QED
    BY <1>8, <2>1, <2>2
<1>9. Named(name)'
  BY <1>4, <1>6, <1>7, <1>8 DEF Named
<1> QED
  BY <1>2, <1>3, <1>9 DEF StoreInv

\* The call of t moves on; its operation, identifier and key stay.
Moves(t, at, fd, result) ==
  /\ calls' = [u \in Callers |-> calls'[u]]
  /\ \A u \in Callers \ {t} : calls'[u] = calls[u]
  /\ calls'[t] = [x \in CallFields |-> calls'[t][x]]
  /\ calls'[t].op = calls[t].op /\ calls'[t].id = calls[t].id /\ calls'[t].key = calls[t].key
  /\ calls'[t].at = at /\ calls'[t].fd = fd /\ calls'[t].result = result

Opens(t, f) == calls' = [calls EXCEPT ![t].at = "lock", ![t].fd = f]

Creates(t, f) == calls' = [calls EXCEPT ![t].at = "lock", ![t].fd = f, ![t].vacant = TRUE]

Settles(t, result) == calls' = [calls EXCEPT ![t].at = "drop", ![t].result = result]

Synced(t) == calls' = [calls EXCEPT ![t].at = "drop", ![t].dirty = TRUE, ![t].result = <<"ok">>]

\* An assignment to one field of a record.
LEMMA Update ==
  ASSUME NEW S, NEW c, c = [x \in S |-> c[x]], NEW y \in S, NEW v
  PROVE  LET e == [c EXCEPT ![y] = v]
         IN e = [x \in S |-> e[x]] /\ e[y] = v /\ \A x \in S \ {y} : e[x] = c[x]
  OBVIOUS

\* Two fields.
LEMMA Update2 ==
  ASSUME NEW S, NEW c, c = [x \in S |-> c[x]], NEW y \in S, NEW v, NEW z \in S, NEW w, y # z
  PROVE  LET e == [[c EXCEPT ![y] = v] EXCEPT ![z] = w]
         IN /\ e = [x \in S |-> e[x]] /\ e[y] = v /\ e[z] = w
            /\ \A x \in S \ {y, z} : e[x] = c[x]
<1> DEFINE d == [c EXCEPT ![y] = v]
           e == [d EXCEPT ![z] = w]
<1>1. d = [x \in S |-> d[x]] /\ d[y] = v /\ \A x \in S \ {y} : d[x] = c[x]
  BY Update
<1> HIDE DEF d
<1>2. e = [x \in S |-> e[x]] /\ e[z] = w /\ \A x \in S \ {z} : e[x] = d[x]
  BY <1>1, Update
<1> HIDE DEF e
<1>3. /\ e = [x \in S |-> e[x]] /\ e[y] = v /\ e[z] = w
      /\ \A x \in S \ {y, z} : e[x] = c[x]
  BY <1>1, <1>2
<1> QED
  BY <1>3 DEF d, e

\* Three fields.
LEMMA Update3 ==
  ASSUME NEW S, NEW c, c = [x \in S |-> c[x]], NEW y \in S, NEW v, NEW z \in S, NEW w,
         NEW p \in S, NEW q, y # z, y # p, z # p
  PROVE  LET e == [[[c EXCEPT ![y] = v] EXCEPT ![z] = w] EXCEPT ![p] = q]
         IN /\ e = [x \in S |-> e[x]] /\ e[y] = v /\ e[z] = w /\ e[p] = q
            /\ \A x \in S \ {y, z, p} : e[x] = c[x]
<1> DEFINE d == [[c EXCEPT ![y] = v] EXCEPT ![z] = w]
           e == [d EXCEPT ![p] = q]
<1>1. /\ d = [x \in S |-> d[x]] /\ d[y] = v /\ d[z] = w
      /\ \A x \in S \ {y, z} : d[x] = c[x]
  BY Update2
<1> HIDE DEF d
<1>2. e = [x \in S |-> e[x]] /\ e[p] = q /\ \A x \in S \ {p} : e[x] = d[x]
  BY <1>1, Update
<1> HIDE DEF e
<1>3. /\ e = [x \in S |-> e[x]] /\ e[y] = v /\ e[z] = w /\ e[p] = q
      /\ \A x \in S \ {y, z, p} : e[x] = c[x]
  BY <1>1, <1>2
<1> QED
  BY <1>3 DEF d, e

\* Enough for a move.
LEMMA MovesIs ==
  ASSUME NEW t \in Callers, calls = [u \in Callers |-> calls[u]],
         NEW e, e = [x \in CallFields |-> e[x]], calls' = [calls EXCEPT ![t] = e],
         e["op"] = calls[t]["op"], e["id"] = calls[t]["id"], e["key"] = calls[t]["key"]
  PROVE  Moves(t, e["at"], e["fd"], e["result"])
  BY DEF Moves

\* The assignments to a call in FsKeyStore are moves.
LEMMA CallForms ==
  ASSUME StoreInv, NEW t \in Callers, NEW a, NEW f, NEW r
  PROVE  /\ GoOn(t, a) => Moves(t, a, calls[t].fd, calls[t].result)
         /\ Return(t, r) => Moves(t, "done", calls[t].fd, r)
         /\ Opens(t, f) => Moves(t, "lock", f, calls[t].result)
         /\ Creates(t, f) => Moves(t, "lock", f, calls[t].result)
         /\ Settles(t, r) => Moves(t, "drop", calls[t].fd, r)
         /\ Synced(t) => Moves(t, "drop", calls[t].fd, <<"ok">>)
<1> DEFINE c == calls[t]
<1>0. /\ "op" \in CallFields /\ "id" \in CallFields /\ "key" \in CallFields
      /\ "at" \in CallFields /\ "fd" \in CallFields /\ "vacant" \in CallFields
      /\ "dirty" \in CallFields /\ "result" \in CallFields
  BY DEF CallFields
<1>1. c = [x \in CallFields |-> c[x]]
  BY DEF StoreInv, CallSound
<1>2. calls = [u \in Callers |-> calls[u]]
  BY DEF StoreInv
<1> HIDE DEF c
<1>3. GoOn(t, a) => Moves(t, a, calls[t].fd, calls[t].result)
  <2> SUFFICES ASSUME GoOn(t, a) PROVE Moves(t, a, calls[t].fd, calls[t].result)
    OBVIOUS
  <2> DEFINE e == [c EXCEPT !.at = a]
  <2>1. calls' = [calls EXCEPT ![t] = e]
    BY <1>2 DEF GoOn, c
  <2>2. /\ e = [x \in CallFields |-> e[x]]
        /\ e["at"] = a
        /\ \A x \in CallFields \ {"at"} : e[x] = c[x]
    BY <1>0, <1>1, Update
  <2> HIDE DEF e
  <2> QED
    BY <1>0, <1>2, <2>1, <2>2, MovesIs DEF c
<1>4. Return(t, r) => Moves(t, "done", calls[t].fd, r)
  <2> SUFFICES ASSUME Return(t, r) PROVE Moves(t, "done", calls[t].fd, r)
    OBVIOUS
  <2> DEFINE e == [[c EXCEPT !.at = "done"] EXCEPT !.result = r]
  <2>1. calls' = [calls EXCEPT ![t] = e]
    BY <1>2 DEF Return, c
  <2>2. /\ e = [x \in CallFields |-> e[x]]
        /\ e["at"] = "done" /\ e["result"] = r
        /\ \A x \in CallFields \ {"at", "result"} : e[x] = c[x]
    BY <1>0, <1>1, Update2
  <2> HIDE DEF e
  <2> QED
    BY <1>0, <1>2, <2>1, <2>2, MovesIs DEF c
<1>5. Opens(t, f) => Moves(t, "lock", f, calls[t].result)
  <2> SUFFICES ASSUME Opens(t, f) PROVE Moves(t, "lock", f, calls[t].result)
    OBVIOUS
  <2> DEFINE e == [[c EXCEPT !.at = "lock"] EXCEPT !.fd = f]
  <2>1. calls' = [calls EXCEPT ![t] = e]
    BY <1>2 DEF Opens, c
  <2>2. /\ e = [x \in CallFields |-> e[x]]
        /\ e["at"] = "lock" /\ e["fd"] = f
        /\ \A x \in CallFields \ {"at", "fd"} : e[x] = c[x]
    BY <1>0, <1>1, Update2
  <2> HIDE DEF e
  <2> QED
    BY <1>0, <1>2, <2>1, <2>2, MovesIs DEF c
<1>6. Creates(t, f) => Moves(t, "lock", f, calls[t].result)
  <2> SUFFICES ASSUME Creates(t, f) PROVE Moves(t, "lock", f, calls[t].result)
    OBVIOUS
  <2> DEFINE e == [[[c EXCEPT !.at = "lock"] EXCEPT !.fd = f] EXCEPT !.vacant = TRUE]
  <2>1. calls' = [calls EXCEPT ![t] = e]
    BY <1>2 DEF Creates, c
  <2>2. /\ e = [x \in CallFields |-> e[x]]
        /\ e["at"] = "lock" /\ e["fd"] = f /\ e["vacant"] = TRUE
        /\ \A x \in CallFields \ {"at", "fd", "vacant"} : e[x] = c[x]
    BY <1>0, <1>1, Update3
  <2> HIDE DEF e
  <2> QED
    BY <1>0, <1>2, <2>1, <2>2, MovesIs DEF c
<1>7. Settles(t, r) => Moves(t, "drop", calls[t].fd, r)
  <2> SUFFICES ASSUME Settles(t, r) PROVE Moves(t, "drop", calls[t].fd, r)
    OBVIOUS
  <2> DEFINE e == [[c EXCEPT !.at = "drop"] EXCEPT !.result = r]
  <2>1. calls' = [calls EXCEPT ![t] = e]
    BY <1>2 DEF Settles, c
  <2>2. /\ e = [x \in CallFields |-> e[x]]
        /\ e["at"] = "drop" /\ e["result"] = r
        /\ \A x \in CallFields \ {"at", "result"} : e[x] = c[x]
    BY <1>0, <1>1, Update2
  <2> HIDE DEF e
  <2> QED
    BY <1>0, <1>2, <2>1, <2>2, MovesIs DEF c
<1>8. Synced(t) => Moves(t, "drop", calls[t].fd, <<"ok">>)
  <2> SUFFICES ASSUME Synced(t) PROVE Moves(t, "drop", calls[t].fd, <<"ok">>)
    OBVIOUS
  <2> DEFINE e == [[[c EXCEPT !.at = "drop"] EXCEPT !.dirty = TRUE] EXCEPT !.result = <<"ok">>]
  <2>1. calls' = [calls EXCEPT ![t] = e]
    BY <1>2 DEF Synced, c
  <2>2. /\ e = [x \in CallFields |-> e[x]]
        /\ e["at"] = "drop" /\ e["dirty"] = TRUE /\ e["result"] = <<"ok">>
        /\ \A x \in CallFields \ {"at", "dirty", "result"} : e[x] = c[x]
    BY <1>0, <1>1, Update3
  <2> HIDE DEF e
  <2> QED
    BY <1>0, <1>2, <2>1, <2>2, MovesIs DEF c
<1> QED
  BY <1>3, <1>4, <1>5, <1>6, <1>7, <1>8

SameIds == \A u \in Callers : calls'[u].id = calls[u].id

\* What the store's invariant says of one call.
LEMMA CallFacts ==
  ASSUME StoreInv, NEW t \in Callers
  PROVE  CallSound(calls[t], Len(files)) /\ Len(files) \in Nat
  BY SeqFunction DEF StoreInv

\* A call that moves stays sound.
LEMMA MovesSound ==
  ASSUME StoreInv, NEW t \in Callers, NEW a, NEW f, NEW r, NEW n, Moves(t, a, f, r),
         f \in 0 .. n,
         a \in {"lock", "write", "sync", "drop", "unlink", "read"} => f # 0,
         a # "done" => calls[t].id \in Ids,
         a = "write" => calls[t].op = "insert",
         r[1] = "key" => r[2] = calls[t].id
  PROVE  CallSound(calls'[t], n)
<1>1. calls[t].op = "insert" => calls[t].key = calls[t].id
  BY CallFacts DEF CallSound
<1> QED
  BY <1>1 DEF Moves, CallSound

\* A move keeps the identifier of every call.
LEMMA MovesSame ==
  ASSUME NEW t \in Callers, NEW a, NEW f, NEW r, Moves(t, a, f, r)
  PROVE  SameIds
  BY DEF Moves, SameIds

\* A move that keeps the files as they are and at most unlinks names.
LEMMA QuietMove ==
  ASSUME StoreInv, NEW t \in Callers, NEW a, NEW f, NEW r, Moves(t, a, f, r),
         files' = files,
         dir' \in [Ids -> 0 .. Len(files)],
         \A id \in Ids : dir'[id] \in {0, dir[id]},
         f = calls[t].fd \/ (f = dir[calls[t].id] /\ calls[t].id \in Ids),
         a \in {"lock", "write", "sync", "drop", "unlink", "read"} => f # 0,
         a # "done" => calls[t].id \in Ids,
         a = "write" => calls[t].op = "insert",
         r[1] = "key" => r[2] = calls[t].id
  PROVE  StoreInv' /\ SameIds
<1> DEFINE c == calls'[t]
<1>1. f \in 0 .. Len(files)
  BY DEF StoreInv, CallSound
<1>2. CallSound(c, Len(files))
  BY <1>1, MovesSound
<1>3. /\ c.id = calls[t].id /\ c.fd = f
      /\ calls' = [u \in Callers |-> calls'[u]]
      /\ \A u \in Callers \ {t} : calls'[u] = calls[u]
  BY DEF Moves
<1>4. files' \in Seq(FileSet) /\ files' = files
  BY DEF StoreInv
<1> HIDE DEF c
<1>5. calls'[t] = c
  BY DEF c
<1>6. StoreInv'
  BY <1>2, <1>3, <1>4, <1>5, CallKeepsStore
<1> QED
  BY <1>6, MovesSame

\* The same when no name is unlinked.
LEMMA QuieterMove ==
  ASSUME StoreInv, NEW t \in Callers, NEW a, NEW f, NEW r, Moves(t, a, f, r),
         UNCHANGED <<dir, files>>,
         f = calls[t].fd \/ (f = dir[calls[t].id] /\ calls[t].id \in Ids),
         a \in {"lock", "write", "sync", "drop", "unlink", "read"} => f # 0,
         a # "done" => calls[t].id \in Ids,
         a = "write" => calls[t].op = "insert",
         r[1] = "key" => r[2] = calls[t].id
  PROVE  StoreInv' /\ SameIds
<1>1. dir' \in [Ids -> 0 .. Len(files)] /\ \A id \in Ids : dir'[id] \in {0, dir[id]}
  BY DEF StoreInv
<1> QED
  BY <1>1, QuietMove

\* openat.
LEMMA OpenAtSound ==
  ASSUME StoreInv, NEW t \in Callers, OpenAt(t)
  PROVE  StoreInv' /\ SameIds
<1> DEFINE f == dir[calls[t].id]
<1>1. calls[t].at = "open" /\ UNCHANGED <<dir, files>>
  BY DEF OpenAt
<1>2. calls[t].id \in Ids /\ (calls[t].result[1] = "key" => calls[t].result[2] = calls[t].id)
  BY <1>1, CallFacts DEF CallSound
<1>3. (f # 0 /\ Opens(t, f)) \/ Return(t, <<"absent">>) \/ GoOn(t, "create")
  BY DEF OpenAt, Opens
<1> HIDE DEF f
<1>4. CASE f # 0 /\ Opens(t, f)
  <2>1. Moves(t, "lock", f, calls[t].result)
    BY <1>4, CallForms
  <2> QED
    BY <1>1, <1>2, <1>4, <2>1, QuieterMove DEF f
<1>5. CASE Return(t, <<"absent">>)
  <2>1. Moves(t, "done", calls[t].fd, <<"absent">>)
    BY <1>5, CallForms
  <2> QED
    BY <1>1, <2>1, QuieterMove
<1>6. CASE GoOn(t, "create")
  <2>1. Moves(t, "create", calls[t].fd, calls[t].result)
    BY <1>6, CallForms
  <2> QED
    BY <1>1, <1>2, <2>1, QuieterMove
<1> QED
  BY <1>3, <1>4, <1>5, <1>6

\* flock, and the fdatasync and read that follow.
LEMMA FlockSound ==
  ASSUME StoreInv, NEW t \in Callers, Flock(t) \/ FlockShared(t) \/ Sync(t) \/ Read(t)
  PROVE  StoreInv' /\ SameIds
<1>1. calls[t].at \in {"lock", "sync", "read"} /\ UNCHANGED <<dir, files>>
  BY DEF Flock, FlockShared, Sync, Read
<1>2. /\ calls[t].id \in Ids /\ calls[t].fd # 0
      /\ calls[t].result[1] = "key" => calls[t].result[2] = calls[t].id
  BY <1>1, CallFacts DEF CallSound
<1>3. \/ Return(t, <<"error">>) \/ Return(t, Contents(calls[t].fd))
      \/ calls[t].op = "insert" /\ GoOn(t, "write")
      \/ GoOn(t, "unlink") \/ Settles(t, <<"absent">>) \/ Synced(t)
  BY DEF Flock, FlockShared, Sync, Read, Settles, Synced
<1>4. CASE Return(t, <<"error">>)
  <2>1. Moves(t, "done", calls[t].fd, <<"error">>)
    BY <1>4, CallForms
  <2> QED
    BY <1>1, <2>1, QuieterMove
<1>5. CASE Return(t, Contents(calls[t].fd))
  <2>1. Moves(t, "done", calls[t].fd, Contents(calls[t].fd))
    BY <1>5, CallForms
  <2>2. Contents(calls[t].fd)[1] = "key" => Contents(calls[t].fd)[2] = calls[t].id
    BY <1>2, ContentsSound
  <2> QED
    BY <1>1, <2>1, <2>2, QuieterMove
<1>6. CASE calls[t].op = "insert" /\ GoOn(t, "write")
  <2>1. Moves(t, "write", calls[t].fd, calls[t].result)
    BY <1>6, CallForms
  <2> QED
    BY <1>1, <1>2, <1>6, <2>1, QuieterMove
<1>7. CASE GoOn(t, "unlink")
  <2>1. Moves(t, "unlink", calls[t].fd, calls[t].result)
    BY <1>7, CallForms
  <2> QED
    BY <1>1, <1>2, <2>1, QuieterMove
<1>8. CASE Settles(t, <<"absent">>)
  <2>1. Moves(t, "drop", calls[t].fd, <<"absent">>)
    BY <1>8, CallForms
  <2> QED
    BY <1>1, <1>2, <2>1, QuieterMove
<1>9. CASE Synced(t)
  <2>1. Moves(t, "drop", calls[t].fd, <<"ok">>)
    BY <1>9, CallForms
  <2> QED
    BY <1>1, <1>2, <2>1, QuieterMove
<1> QED
  BY <1>3, <1>4, <1>5, <1>6, <1>7, <1>8, <1>9

\* The two places that unlink a name, VacantEntry::drop and OccupiedEntry::remove.
LEMMA UnlinkSound ==
  ASSUME StoreInv, NEW t \in Callers, Drop(t) \/ Unlink(t)
  PROVE  StoreInv' /\ SameIds
<1>1. calls[t].at \in {"drop", "unlink"} /\ files' = files
  BY DEF Drop, Unlink
<1>2. /\ calls[t].id \in Ids /\ calls[t].fd # 0
      /\ calls[t].result[1] = "key" => calls[t].result[2] = calls[t].id
  BY <1>1, CallFacts DEF CallSound
<1>3. dir' = dir \/ dir' = [dir EXCEPT ![calls[t].id] = 0]
  BY DEF Drop, Unlink
<1>4. dir' \in [Ids -> 0 .. Len(files)] /\ \A id \in Ids : dir'[id] \in {0, dir[id]}
  <2>1. dir \in [Ids -> 0 .. Len(files)] /\ 0 \in 0 .. Len(files)
    BY CallFacts DEF StoreInv
  <2> QED
    BY <1>2, <1>3, <2>1
<1>5. GoOn(t, "done") \/ Return(t, <<"error">>) \/ GoOn(t, "read")
  BY DEF Drop, Unlink
<1>6. CASE GoOn(t, "done")
  <2>1. Moves(t, "done", calls[t].fd, calls[t].result)
    BY <1>6, CallForms
  <2> QED
    BY <1>1, <1>2, <1>4, <2>1, QuietMove
<1>7. CASE Return(t, <<"error">>)
  <2>1. Moves(t, "done", calls[t].fd, <<"error">>)
    BY <1>7, CallForms
  <2> QED
    BY <1>1, <1>4, <2>1, QuietMove
<1>8. CASE GoOn(t, "read")
  <2>1. Moves(t, "read", calls[t].fd, calls[t].result)
    BY <1>8, CallForms
  <2> QED
    BY <1>1, <1>2, <1>4, <2>1, QuietMove
<1> QED
  BY <1>5, <1>6, <1>7, <1>8

\* A write to the file of the call of t: the key of its identifier, or less.
LEMMA WriteKeeps ==
  ASSUME StoreInv, NEW t \in Callers, calls[t].at = "write",
         NEW a \in {"sync", "drop"}, NEW r, Moves(t, a, calls[t].fd, r),
         r[1] = "key" => r[2] = calls[t].id,
         dir' = dir,
         NEW file \in FileSet, files' = [files EXCEPT ![calls[t].fd] = file],
         file.size = "whole" => file.key = calls[t].id
  PROVE  StoreInv' /\ SameIds
<1> DEFINE c == calls'[t]
<1>1. calls[t].id \in Ids /\ calls[t].fd \in 1 .. Len(files)
  <2>1. calls[t].id \in Ids /\ calls[t].fd \in 0 .. Len(files) /\ calls[t].fd # 0
    BY CallFacts DEF CallSound
  <2> QED
    BY <2>1, CallFacts
<1>2. CallSound(c, Len(files))
  BY <1>1, MovesSound
<1>3. /\ c.id = calls[t].id /\ c.fd = calls[t].fd
      /\ calls' = [u \in Callers |-> calls'[u]]
      /\ \A u \in Callers \ {t} : calls'[u] = calls[u]
  BY DEF Moves
<1>4. files' \in Seq(FileSet) /\ Len(files') = Len(files)
  BY <1>1, SeqReplace DEF StoreInv
<1>5. \A f \in 1 .. Len(files) : files'[f].size = "whole" =>
            \/ files[f].size = "whole" /\ files'[f].key = files[f].key
            \/ f = calls[t].fd /\ files'[f].key = calls[t].id
  <2>1. files = [f \in 1 .. Len(files) |-> files[f]]
    BY DEF StoreInv
  <2> QED
    BY <1>1, <2>1
<1>6. dir' \in [Ids -> 0 .. Len(files)] /\ \A id \in Ids : dir'[id] \in {0, dir[id]}
  BY DEF StoreInv
<1> HIDE DEF c
<1>7. calls'[t] = c
  BY DEF c
<1>8. StoreInv'
  BY <1>2, <1>3, <1>4, <1>5, <1>6, <1>7, CallKeepsStore
<1> QED
  BY <1>8, MovesSame

\* VacantEntry::insert writes the whole key.
LEMMA WriteSound ==
  ASSUME StoreInv, NEW t \in Callers, Write(t)
  PROVE  StoreInv' /\ SameIds
<1> DEFINE file == [size |-> "whole", key |-> calls[t].key]
<1>1. /\ calls[t].at = "write" /\ GoOn(t, "sync") /\ dir' = dir
      /\ files' = [files EXCEPT ![calls[t].fd] = file]
  BY DEF Write
<1>2. /\ calls[t].id \in Ids /\ calls[t].key = calls[t].id
      /\ calls[t].result[1] = "key" => calls[t].result[2] = calls[t].id
  BY <1>1, CallFacts DEF CallSound
<1>3. Moves(t, "sync", calls[t].fd, calls[t].result)
  BY <1>1, CallForms
<1>4. file \in FileSet /\ file.key = calls[t].id
  BY <1>2 DEF FileSet
<1> HIDE DEF file
<1> QED
  BY <1>1, <1>2, <1>3, <1>4, WriteKeeps

\* create_new: the file gets the name that it is created for.
LEMMA CreateNewSound ==
  ASSUME StoreInv, NEW t \in Callers, CreateNew(t)
  PROVE  StoreInv' /\ SameIds
<1> DEFINE n == Len(files)
           f == n + 1
           file == [size |-> "empty", key |-> Absent]
<1>0. calls[t].at = "create" /\ n \in Nat
  BY CallFacts DEF CreateNew
<1>1. calls[t].id \in Ids /\ (calls[t].result[1] = "key" => calls[t].result[2] = calls[t].id)
  BY <1>0, CallFacts DEF CallSound
<1>2. CASE Return(t, <<"error">>) /\ UNCHANGED <<dir, files>>
  <2>1. Moves(t, "done", calls[t].fd, <<"error">>)
    BY <1>2, CallForms
  <2> QED
    BY <1>2, <2>1, QuieterMove
<1>3. CASE /\ Creates(t, f) /\ dir' = [dir EXCEPT ![calls[t].id] = f]
           /\ files' = Append(files, file)
  <2>1. Moves(t, "lock", f, calls[t].result)
    BY <1>3, CallForms, SMTT(30)
  <2>2. /\ calls'[t].id = calls[t].id /\ calls'[t].fd = f
        /\ calls' = [u \in Callers |-> calls'[u]]
        /\ \A u \in Callers \ {t} : calls'[u] = calls[u]
    BY <2>1 DEF Moves
  <2>3. CallSound(calls'[t], f)
    <3>1. f \in 0 .. f /\ f # 0
      BY <1>0
    <3> HIDE DEF f, n
    <3> QED
      BY <1>1, <2>1, <3>1, MovesSound
  <2>4. file \in FileSet
    BY DEF FileSet
  <2>5. /\ files' \in Seq(FileSet) /\ Len(files') = f /\ files'[f] = file
        /\ \A g \in 1 .. n : files'[g] = files[g]
    BY <1>3, <2>4, SeqAppend DEF StoreInv
  <2>6. \A u \in Callers : CallSound(calls'[u], Len(files'))
    <3> TAKE u \in Callers
    <3>1. CASE u = t
      BY <2>3, <2>5, <3>1
    <3>2. CASE u # t
      <4>1. CallSound(calls[u], n) /\ calls'[u] = calls[u]
        BY <2>2, <3>2, CallFacts
      <4>2. calls[u].fd \in 0 .. f
        BY <1>0, <4>1 DEF CallSound
      <4> HIDE DEF n, f
      <4> QED
        BY <2>5, <4>1, <4>2 DEF CallSound
    <3> QED
      BY <3>1, <3>2
  <2>7. PICK name : Named(name)
    BY DEF StoreInv
  <2>8. PICK named :
          /\ named \in [1 .. f -> Ids] /\ named[f] = calls[t].id
          /\ \A g \in 1 .. n : named[g] = name[g]
    <3> DEFINE longer == [g \in 1 .. f |-> IF g = f THEN calls[t].id ELSE name[g]]
    <3>1. /\ longer \in [1 .. f -> Ids] /\ longer[f] = calls[t].id
          /\ \A g \in 1 .. n : longer[g] = name[g]
      BY <1>0, <1>1, <2>7 DEF Named
    <3> QED
      BY <3>1
  <2> HIDE DEF file
  <2>9. dir \in [Ids -> 0 .. n]
    BY DEF StoreInv
  <2>10. dir' \in [Ids -> 0 .. Len(files')]
    BY <1>0, <1>1, <1>3, <2>5, <2>9
  <2>11. ASSUME NEW id \in Ids, dir'[id] # 0 PROVE named[dir'[id]] = id
    <3>1. CASE id = calls[t].id
      BY <1>3, <2>8, <2>9, <3>1
    <3>2. CASE id # calls[t].id
      <4>1. dir'[id] = dir[id] /\ dir[id] \in 1 .. n
        BY <1>0, <1>3, <2>9, <2>11, <3>2
      <4> QED
        BY <2>7, <2>8, <4>1 DEF Named
    <3> QED
      BY <3>1, <3>2
  <2>12. ASSUME NEW u \in Callers, calls'[u].fd # 0 PROVE named[calls'[u].fd] = calls'[u].id
    <3>1. CASE u = t
      BY <2>2, <2>8, <3>1
    <3>2. CASE u # t
      <4>1. calls'[u] = calls[u] /\ calls[u].fd \in 0 .. n
        BY <2>2, <3>2, CallFacts DEF CallSound
      <4>2. calls[u].fd \in 1 .. n
        BY <1>0, <2>12, <4>1
      <4> QED
        BY <2>7, <2>8, <2>12, <4>1, <4>2 DEF Named
    <3> QED
      BY <3>1, <3>2
  <2>13. ASSUME NEW g \in 1 .. f, files'[g].size = "whole" PROVE files'[g].key = named[g]
    <3>1. g # f
      BY <2>5, <2>13 DEF file
    <3>2. g \in 1 .. n
      BY <1>0, <3>1
    <3> QED
      BY <2>5, <2>7, <2>8, <2>13, <3>2 DEF Named
  <2>14. Named(named)'
    <3>1. /\ named \in [1 .. Len(files') -> Ids]
          /\ \A g \in 1 .. Len(files') : files'[g].size = "whole" => files'[g].key = named[g]
      BY <2>5, <2>8, <2>13
    <3>2. /\ \A id \in Ids : dir'[id] # 0 => named[dir'[id]] = id
          /\ \A u \in Callers : calls'[u].fd # 0 => named[calls'[u].fd] = calls'[u].id
      BY <2>11, <2>12
    <3> HIDE DEF f, n
    <3> QED
      BY <3>1, <3>2 DEF Named
  <2>15. StoreInv'
    BY <2>2, <2>5, <2>6, <2>10, <2>14 DEF StoreInv
  <2> QED
    BY <2>1, <2>15, MovesSame
<1> QED
  BY <1>2, <1>3 DEF CreateNew, Creates

\* A system call fails.
LEMMA SystemCallFailsSound ==
  ASSUME StoreInv, NEW t \in Callers, SystemCallFails(t)
  PROVE  StoreInv' /\ SameIds
<1>0. dir' = dir /\ CallSound(calls[t], Len(files)) /\ <<"error">>[1] # "key"
  BY CallFacts DEF SystemCallFails
<1>1. CASE Return(t, <<"error">>) /\ files' = files
  <2>1. Moves(t, "done", calls[t].fd, <<"error">>)
    BY <1>1, CallForms
  <2> QED
    BY <1>0, <1>1, <2>1, QuieterMove
<1>2. CASE /\ calls[t].at = "write"
           /\ \E size \in {"empty", "torn"} : files' = [files EXCEPT ![calls[t].fd].size = size]
           /\ Settles(t, <<"error">>)
  <2>1. PICK size \in {"empty", "torn"} : files' = [files EXCEPT ![calls[t].fd].size = size]
    BY <1>2
  <2> DEFINE file == [files[calls[t].fd] EXCEPT !.size = size]
  <2>2. Moves(t, "drop", calls[t].fd, <<"error">>)
    BY <1>2, CallForms
  <2>3. calls[t].fd \in 1 .. Len(files)
    <3>1. calls[t].fd \in 0 .. Len(files) /\ calls[t].fd # 0
      BY <1>0, <1>2 DEF CallSound
    <3> QED
      BY <3>1, CallFacts
  <2>4. files[calls[t].fd] \in FileSet
    BY <2>3, SeqFunction DEF StoreInv
  <2>5. file \in FileSet /\ file.size # "whole"
    BY <2>4 DEF FileSet
  <2>6. files' = [files EXCEPT ![calls[t].fd] = file]
    BY <2>1
  <2> HIDE DEF file
  <2> QED
    BY <1>0, <1>2, <2>2, <2>5, <2>6, WriteKeeps
<1>3. CASE calls[t].at = "sync" /\ Settles(t, <<"error">>) /\ files' = files
  <2>1. Moves(t, "drop", calls[t].fd, <<"error">>)
    BY <1>3, CallForms
  <2>2. calls[t].fd # 0 /\ calls[t].id \in Ids
    BY <1>0, <1>3 DEF CallSound
  <2> QED
    BY <1>0, <1>3, <2>1, <2>2, QuieterMove
<1>4. CASE GoOn(t, "done") /\ files' = files
  <2>1. Moves(t, "done", calls[t].fd, calls[t].result)
    BY <1>4, CallForms
  <2>2. calls[t].result[1] = "key" => calls[t].result[2] = calls[t].id
    BY <1>0 DEF CallSound
  <2> QED
    BY <1>0, <1>4, <2>1, <2>2, QuieterMove
<1> QED
  BY <1>1, <1>2, <1>3, <1>4 DEF SystemCallFails, Settles

\* Every system call, failed or not.
LEMMA StoreStepSound ==
  ASSUME StoreInv, NEW t \in Callers, StoreStep(t) \/ SystemCallFails(t)
  PROVE  StoreInv' /\ SameIds
<1>1. CASE CreateNew(t)
  BY <1>1, CreateNewSound
<1>2. CASE Write(t)
  BY <1>2, WriteSound
<1>3. CASE Drop(t) \/ Unlink(t)
  BY <1>3, UnlinkSound
<1>4. CASE SystemCallFails(t)
  BY <1>4, SystemCallFailsSound
<1>5. CASE OpenAt(t)
  BY <1>5, OpenAtSound
<1>6. CASE Flock(t) \/ FlockShared(t) \/ Sync(t) \/ Read(t)
  BY <1>6, FlockSound
<1> QED
  BY <1>1, <1>2, <1>3, <1>4, <1>5, <1>6 DEF StoreStep

\* A thread outside any call.
LEMMA NoCallSound ==
  ASSUME NEW n \in Nat
  PROVE  CallSound(NoCall, n) /\ NoCall.fd = 0
<1>1. NoCall = [x \in CallFields |-> NoCall[x]]
  BY DEF NoCall, CallFields
<1>2. NoCall.fd = 0 /\ NoCall.at = "done" /\ NoCall.op = "none" /\ NoCall.result = <<"none">>
  BY DEF NoCall
<1> QED
  BY <1>1, <1>2 DEF CallSound

\* A call that begins has no file yet.
LEMMA InvokeSound ==
  ASSUME StoreInv, NEW t \in Callers, NEW op, NEW id \in Ids, NEW val,
         Invoke(t, op, id, val), op = "insert" => val = id, dir' = dir, files' = files
  PROVE  /\ StoreInv'
         /\ calls'[t].id = id
         /\ \A u \in Callers \ {t} : calls'[u].id = calls[u].id
<1> DEFINE e == [[[NoCall EXCEPT !.op = op] EXCEPT !.id = id] EXCEPT !.key = val]
           r == [e EXCEPT !.at = "open"]
<1>0. /\ "op" \in CallFields /\ "id" \in CallFields /\ "key" \in CallFields
      /\ "at" \in CallFields /\ "fd" \in CallFields /\ "result" \in CallFields
  BY DEF CallFields
<1>1. /\ NoCall = [x \in CallFields |-> NoCall[x]]
      /\ NoCall["fd"] = 0 /\ NoCall["result"] = <<"none">>
  BY DEF NoCall, CallFields
<1>2. /\ r = [x \in CallFields |-> r[x]]
      /\ r.op = op /\ r.id = id /\ r.key = val /\ r.at = "open" /\ r.fd = 0
      /\ r.result = <<"none">>
  <2>1. /\ e = [x \in CallFields |-> e[x]] /\ e["op"] = op /\ e["id"] = id /\ e["key"] = val
        /\ \A x \in CallFields \ {"op", "id", "key"} : e[x] = NoCall[x]
    BY <1>0, <1>1, Update3
  <2> HIDE DEF e
  <2>2. /\ r = [x \in CallFields |-> r[x]] /\ r["at"] = "open"
        /\ \A x \in CallFields \ {"at"} : r[x] = e[x]
    BY <1>0, <2>1, Update
  <2> HIDE DEF r
  <2> QED
    BY <1>0, <1>1, <2>1, <2>2, SMTT(30)
<1>3. calls = [u \in Callers |-> calls[u]] /\ calls' = [calls EXCEPT ![t] = r]
  BY DEF Invoke, StoreInv
<1> HIDE DEF r
<1>4. CallSound(r, Len(files))
  <2>1. Len(files) \in Nat
    BY CallFacts, Zenon
  <2>2. r.fd \in 0 .. Len(files)
    BY <1>2, <2>1
  <2>3. r.result[1] # "key"
    BY <1>2
  <2>4. r.at \notin {"lock", "write", "sync", "drop", "unlink", "read"}
    BY <1>2
  <2> QED
    BY <1>2, <2>2, <2>3, <2>4, Zenon DEF CallSound
<1>5. /\ calls' = [u \in Callers |-> calls'[u]] /\ calls'[t] = r
      /\ \A u \in Callers \ {t} : calls'[u] = calls[u]
  BY <1>3
<1>6. dir' \in [Ids -> 0 .. Len(files)] /\ files' \in Seq(FileSet) /\ files' = files /\ dir' = dir
  BY DEF StoreInv
<1>7. StoreInv'
  BY <1>2, <1>4, <1>5, <1>6, CallKeepsStore
<1> QED
  BY <1>2, <1>5, <1>7

\* The threads of a process that dies are in no call.
LEMMA DieSound ==
  ASSUME StoreInv, NEW T \in SUBSET Callers, Die(T)
  PROVE  StoreInv' /\ \A u \in Callers \ T : calls'[u].id = calls[u].id
<1>3. dir' = dir /\ calls' = [t \in Callers |-> IF t \in T THEN NoCall ELSE calls[t]]
  BY DEF Die
<1>4. Len(files) \in Nat
  BY SeqFunction DEF StoreInv
<1>5. CallSound(NoCall, Len(files)) /\ NoCall.fd = 0
  BY <1>4, NoCallSound
<1>6. \A u \in Callers : calls'[u] = NoCall \/ calls'[u] = calls[u]
  BY <1>3
<1>7. calls' = [t \in Callers |-> calls'[t]]
  BY <1>3
<1>8. /\ files' \in Seq(FileSet) /\ Len(files') = Len(files)
      /\ \A f \in 1 .. Len(files) : files'[f].size = "whole" => files'[f] = files[f]
  <2>1. CASE files' = files
    BY <2>1 DEF StoreInv
  <2>2. CASE \E t \in T : /\ calls[t].at = "write"
                          /\ files' = [files EXCEPT ![calls[t].fd].size = "torn"]
    <3>1. PICK t \in T : /\ calls[t].at = "write"
                         /\ files' = [files EXCEPT ![calls[t].fd].size = "torn"]
      BY <2>2
    <3> DEFINE g == calls[t].fd
               file == [files[g] EXCEPT !.size = "torn"]
    <3>2. g \in 1 .. Len(files)
      <4>1. g \in 0 .. Len(files) /\ g # 0
        BY <3>1, CallFacts DEF CallSound
      <4> QED
        BY <1>4, <4>1
    <3>3. files[g] \in FileSet
      BY <3>2, SeqFunction DEF StoreInv
    <3>4. file \in FileSet /\ file.size # "whole"
      BY <3>3 DEF FileSet
    <3>5. files' = [files EXCEPT ![g] = file]
      BY <3>1
    <3> HIDE DEF file, g
    <3>6. files' \in Seq(FileSet) /\ Len(files') = Len(files)
      BY <3>2, <3>4, <3>5, SeqReplace DEF StoreInv
    <3>7. files = [f \in 1 .. Len(files) |-> files[f]]
      BY DEF StoreInv
    <3> QED
      BY <3>2, <3>4, <3>5, <3>6, <3>7
  <2> QED
    BY <2>1, <2>2 DEF Die
<1>9. PICK name : Named(name)
  BY DEF StoreInv
<1>10. Named(name)'
  <2>1. \A u \in Callers : calls'[u].fd # 0 => name[calls'[u].fd] = calls'[u].id
    BY <1>5, <1>6, <1>9 DEF Named
  <2>2. /\ name \in [1 .. Len(files') -> Ids]
        /\ \A id \in Ids : dir'[id] # 0 => name[dir'[id]] = id
        /\ \A f \in 1 .. Len(files') : files'[f].size = "whole" => files'[f].key = name[f]
    BY <1>3, <1>8, <1>9 DEF Named
  <2> QED
    BY <2>1, <2>2 DEF Named
<1>11. \A u \in Callers : CallSound(calls'[u], Len(files'))
  BY <1>5, <1>6, <1>8, CallFacts
<1>12. StoreInv'
  BY <1>3, <1>7, <1>8, <1>10, <1>11 DEF StoreInv
<1> QED
  BY <1>3, <1>12

\* The keys that are stored from the start are in files of their own names.
LEMMA StoreInitSound ==
  ASSUME StoreInit
  PROVE  StoreInv
<1> DEFINE n == Len(FirstKeys)
<1>1. FirstKeys \in Seq(Ids) /\ n \in Nat /\ DOMAIN FirstKeys = 1 .. n
      /\ FirstKeys \in [1 .. n -> Ids]
  BY StoreAssumption, SeqFunction
<1> HIDE DEF n
<1>2. files = [i \in 1 .. n |-> [size |-> "whole", key |-> FirstKeys[i]]]
  BY <1>1 DEF StoreInit
<1>3. \A i \in 1 .. n : [size |-> "whole", key |-> FirstKeys[i]] \in FileSet
  BY <1>1 DEF FileSet
<1>4. files \in Seq(FileSet) /\ Len(files) = n
  <2>1. files \in [1 .. n -> FileSet]
    BY <1>2, <1>3
  <2> QED
    BY <1>1, <2>1
<1>5. /\ dir \in [Ids -> 0 .. n]
      /\ \A id \in Ids : dir[id] # 0 => FirstKeys[dir[id]] = id
  <2>1. dir = [id \in Ids |-> IF \E i \in 1 .. n : FirstKeys[i] = id
                              THEN CHOOSE i \in 1 .. n : FirstKeys[i] = id ELSE 0]
    BY <1>1 DEF StoreInit
  <2>2. ASSUME NEW id \in Ids
        PROVE  dir[id] \in 0 .. n /\ (dir[id] # 0 => FirstKeys[dir[id]] = id)
    <3>1. CASE \E i \in 1 .. n : FirstKeys[i] = id
      <4>1. dir[id] = CHOOSE i \in 1 .. n : FirstKeys[i] = id
        BY <2>1, <3>1
      <4>2. dir[id] \in 1 .. n /\ FirstKeys[dir[id]] = id
        BY <3>1, <4>1
      <4> QED
        BY <1>1, <4>2
    <3>2. CASE ~ \E i \in 1 .. n : FirstKeys[i] = id
      BY <1>1, <2>1, <3>2
    <3> QED
      BY <3>1, <3>2
  <2> QED
    BY <2>1, <2>2
<1>7. CallSound(NoCall, n) /\ NoCall.fd = 0
  BY <1>1, NoCallSound
<1>8. calls = [t \in Callers |-> calls[t]] /\ \A t \in Callers : calls[t] = NoCall
  BY DEF StoreInit
<1>9. Named(FirstKeys)
  <2>1. \A t \in Callers : calls[t].fd = 0
    BY <1>7, <1>8
  <2>2. \A f \in 1 .. n : files[f].key = FirstKeys[f]
    BY <1>2
  <2> QED
    BY <1>1, <1>4, <1>5, <2>1, <2>2 DEF Named
<1> QED
  BY <1>4, <1>5, <1>7, <1>8, <1>9 DEF StoreInv

=============================================================================
