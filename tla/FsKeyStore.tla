----------------------------- MODULE FsKeyStore -----------------------------
(***************************************************************************)
(* The key store that keeps each key in a file                             *)
(* (aranya-crypto: keystore/fs_keystore/store.rs under keystore/mod.rs).   *)
(* The name of the file is the key's identifier.  A call opens or creates  *)
(* the file and then locks it with flock: two system calls, between which  *)
(* other threads run.  A lock belongs to the file and not to its name, so  *)
(* a thread may come to hold the lock of a file that has been unlinked.    *)
(*                                                                         *)
(* Each action is one system call.  Where nothing that another thread can  *)
(* see happens between two of them they are one action: the shared lock of *)
(* `get', the read under it and the close; the last step of a call and the *)
(* close that releases its lock.                                           *)
(*                                                                         *)
(* The canary file, which debug builds look for to notice that the         *)
(* directory was deleted, is left out.                                     *)
(*                                                                         *)
(* A fault is a system call that fails, or the death of a process, which   *)
(* closes its files and leaves them as they are.                           *)
(***************************************************************************)
EXTENDS Naturals, Sequences

CONSTANTS
  Callers,    \* the threads that use a clone of the store
  Ids,        \* the identifiers of the keys
  Absent,     \* no identifier, no key and no thread
  FirstKeys   \* the identifiers whose key is stored from the start, a sequence

ASSUME StoreAssumption == FirstKeys \in Seq(Ids)

VARIABLES
  dir,        \* the directory: the file that each identifier names, or 0
  files,      \* the files ever created, [size, key]: "empty", "torn" or "whole"
  flocks,     \* the thread that holds the exclusive lock of each file
  calls,      \* the call that each thread is in
  faults      \* bound: how many faults may still happen

storeVars == <<dir, files, flocks, calls, faults>>

(***************************************************************************)
(* `vacant' and `dirty' are those of the Entry.  A key is known by the     *)
(* identifier it belongs to.                                               *)
(***************************************************************************)
NoCall == [op |-> "none", id |-> Absent, key |-> Absent, at |-> "done", fd |-> 0,
           vacant |-> FALSE, dirty |-> FALSE, result |-> <<"none">>]

StoreInit ==
  /\ files = [i \in DOMAIN FirstKeys |-> [size |-> "whole", key |-> FirstKeys[i]]]
  /\ dir = [id \in Ids |-> IF \E i \in DOMAIN FirstKeys : FirstKeys[i] = id
                           THEN CHOOSE i \in DOMAIN FirstKeys : FirstKeys[i] = id
                           ELSE 0]
  /\ flocks = [i \in DOMAIN FirstKeys |-> Absent]
  /\ calls = [t \in Callers |-> NoCall]

(***************************************************************************)
(* The start and the end of a call.  Its result stays until the next one   *)
(* starts.                                                                 *)
(***************************************************************************)
Invoke(t, op, id, key) ==
  /\ calls[t].at = "done"
  /\ calls' = [calls EXCEPT ![t] = [NoCall EXCEPT !.op = op, !.id = id, !.key = key, !.at = "open"]]

GoOn(t, step) == calls' = [calls EXCEPT ![t].at = step]

Return(t, result) == calls' = [calls EXCEPT ![t].at = "done", ![t].result = result]

Close(t) == flocks' = [flocks EXCEPT ![calls[t].fd] = IF @ = t THEN Absent ELSE @]

Contents(f) == IF files[f].size = "whole" THEN <<"key", files[f].key>> ELSE <<"error">>

(***************************************************************************)
(* Exclusive::openat and Shared::openat up to the lock.                    *)
(***************************************************************************)
OpenAt(t) ==
  LET c == calls[t]
      f == dir[c.id]
  IN /\ c.at = "open"
     /\ \/ /\ f # 0
           /\ calls' = [calls EXCEPT ![t].at = "lock", ![t].fd = f]
        \/ /\ f = 0 /\ c.op = "get"
           /\ Return(t, <<"absent">>)
        \/ /\ f = 0 /\ c.op # "get"
           /\ GoOn(t, "create")
     /\ UNCHANGED <<dir, files, flocks, faults>>

\* Exclusive::create_new up to the lock.  If the file exists by now, openat
\* fails with EEXIST, which `entry' returns.
CreateNew(t) ==
  LET c == calls[t]
      f == Len(files) + 1
  IN /\ c.at = "create"
     /\ \/ /\ dir[c.id] # 0
           /\ Return(t, <<"error">>)
           /\ UNCHANGED <<dir, files, flocks>>
        \/ /\ dir[c.id] = 0
           /\ dir' = [dir EXCEPT ![c.id] = f]
           /\ files' = Append(files, [size |-> "empty", key |-> Absent])
           /\ flocks' = Append(flocks, Absent)
           /\ calls' = [calls EXCEPT ![t].at = "lock", ![t].fd = f, ![t].vacant = TRUE]
     /\ UNCHANGED faults

(***************************************************************************)
(* flock, and what the callers of `entry' do with the entry: try_insert    *)
(* refuses an occupied one, remove drops a vacant one.                     *)
(***************************************************************************)
Flock(t) ==
  LET c == calls[t]
  IN /\ c.at = "lock" /\ c.op # "get"
     /\ flocks[c.fd] = Absent
     /\ \/ /\ c.op = "insert" /\ ~c.vacant
           /\ Return(t, <<"error">>)
           /\ UNCHANGED flocks
        \/ /\ c.op = "insert" /\ c.vacant
           /\ GoOn(t, "write")
           /\ flocks' = [flocks EXCEPT ![c.fd] = t]
        \/ /\ c.op = "remove" /\ c.vacant
           /\ calls' = [calls EXCEPT ![t].at = "drop", ![t].result = <<"absent">>]
           /\ flocks' = [flocks EXCEPT ![c.fd] = t]
        \/ /\ c.op = "remove" /\ ~c.vacant
           /\ GoOn(t, "unlink")
           /\ flocks' = [flocks EXCEPT ![c.fd] = t]
     /\ UNCHANGED <<dir, files, faults>>

FlockShared(t) ==
  LET c == calls[t]
  IN /\ c.at = "lock" /\ c.op = "get"
     /\ flocks[c.fd] = Absent
     /\ Return(t, Contents(c.fd))
     /\ UNCHANGED <<dir, files, flocks, faults>>

(***************************************************************************)
(* VacantEntry: insert writes the key, flushes it and sets `dirty'; drop   *)
(* unlinks the name when `dirty' is not set.                               *)
(***************************************************************************)
Write(t) ==
  LET c == calls[t]
  IN /\ c.at = "write"
     /\ files' = [files EXCEPT ![c.fd] = [size |-> "whole", key |-> c.key]]
     /\ GoOn(t, "sync")
     /\ UNCHANGED <<dir, flocks, faults>>

Sync(t) ==
  /\ calls[t].at = "sync"
  /\ calls' = [calls EXCEPT ![t].at = "drop", ![t].dirty = TRUE, ![t].result = <<"ok">>]
  /\ UNCHANGED <<dir, files, flocks, faults>>

\* As Drop, but the name is left in place.
DropAsDirty(t) ==
  /\ calls[t].at = "drop"
  /\ GoOn(t, "done")
  /\ Close(t)
  /\ UNCHANGED <<dir, files, faults>>

Drop(t) ==
  LET c == calls[t]
  IN /\ c.at = "drop"
     /\ dir' = IF c.dirty THEN dir ELSE [dir EXCEPT ![c.id] = 0]
     /\ GoOn(t, "done")
     /\ Close(t)
     /\ UNCHANGED <<files, faults>>

(***************************************************************************)
(* OccupiedEntry::remove: unlink the name, then read the file.             *)
(***************************************************************************)
\* As Unlink, but the name is left in place.
UnlinkNothing(t) ==
  /\ calls[t].at = "unlink"
  /\ GoOn(t, "read")
  /\ UNCHANGED <<dir, files, flocks, faults>>

Unlink(t) ==
  LET c == calls[t]
  IN /\ c.at = "unlink"
     /\ \/ /\ dir[c.id] = 0
           /\ Return(t, <<"error">>)
           /\ Close(t)
           /\ UNCHANGED dir
        \/ /\ dir[c.id] # 0
           /\ dir' = [dir EXCEPT ![c.id] = 0]
           /\ GoOn(t, "read")
           /\ UNCHANGED flocks
     /\ UNCHANGED <<files, faults>>

Read(t) ==
  /\ calls[t].at = "read"
  /\ Return(t, Contents(calls[t].fd))
  /\ Close(t)
  /\ UNCHANGED <<dir, files, faults>>

StoreStep(t) ==
  \/ OpenAt(t) \/ CreateNew(t) \/ Flock(t) \/ FlockShared(t)
  \/ Write(t) \/ Sync(t) \/ Drop(t)
  \/ Unlink(t) \/ Read(t)

(***************************************************************************)
(* The faults.  A system call fails: openat; flock, which an interrupted   *)
(* thread does not try again; write, before or after part of the key was   *)
(* written; fdatasync; unlinkat, whose failure drop ignores; read.         *)
(***************************************************************************)
Fault == faults > 0 /\ faults' = faults - 1

SystemCallFails(t) ==
  LET c == calls[t]
  IN /\ Fault
     /\ \/ /\ c.at \in {"open", "create", "lock", "unlink", "read"}
           /\ Return(t, <<"error">>)
           /\ IF c.fd = 0 THEN UNCHANGED flocks ELSE Close(t)
           /\ UNCHANGED files
        \/ /\ c.at = "write"
           /\ \E size \in {"empty", "torn"} : files' = [files EXCEPT ![c.fd].size = size]
           /\ calls' = [calls EXCEPT ![t].at = "drop", ![t].result = <<"error">>]
           /\ UNCHANGED flocks
        \/ /\ c.at = "sync"
           /\ calls' = [calls EXCEPT ![t].at = "drop", ![t].result = <<"error">>]
           /\ UNCHANGED <<files, flocks>>
        \/ /\ c.at = "drop" /\ ~c.dirty
           /\ GoOn(t, "done")
           /\ Close(t)
           /\ UNCHANGED files
     /\ UNCHANGED dir

\* The process of the threads in T dies; a write may have been cut short.
Die(T) ==
  /\ Fault
  /\ calls' = [t \in Callers |-> IF t \in T THEN NoCall ELSE calls[t]]
  /\ flocks' = [f \in DOMAIN flocks |-> IF flocks[f] \in T THEN Absent ELSE flocks[f]]
  /\ \/ UNCHANGED files
     \/ \E t \in T : /\ calls[t].at = "write"
                     /\ files' = [files EXCEPT ![calls[t].fd].size = "torn"]
  /\ UNCHANGED dir

(***************************************************************************)
(* Correctness.                                                            *)
(***************************************************************************)
\* An insert that has written its key and not yet flushed it may still take it back.
Unsettled(f) ==
  \E t \in Callers : calls[t].fd = f /\ calls[t].vacant /\ ~calls[t].dirty
                     /\ calls[t].at \in {"lock", "write", "sync", "drop"}

StoredKeys ==
  [id \in Ids |-> IF dir[id] # 0 /\ files[dir[id]].size = "whole" /\ ~Unsettled(dir[id])
                  THEN files[dir[id]].key ELSE Absent]

\* A call has had its effect when its result is settled, and a remove when it has
\* unlinked the name of a file or found no name.
CallSeen(t) ==
  LET c == calls[t]
      settled == c.result # <<"none">>
      removed == c.at = "read"
      missing == c.op = "remove" /\ c.vacant
  IN [op |-> c.op, id |-> c.id, key |-> c.key,
      state |-> CASE c.at = "done" -> "done"
                  [] settled \/ removed \/ missing -> "taken"
                  [] OTHER -> "begun",
      result |-> CASE settled -> c.result
                   [] removed -> Contents(c.fd)
                   [] missing -> <<"absent">>
                   [] OTHER -> <<"none">>]

Promise == INSTANCE KeyStore WITH Threads <- Callers, keys <- StoredKeys, ops <- [t \in Callers |-> CallSeen(t)]

=============================================================================
