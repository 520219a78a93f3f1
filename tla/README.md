# A TLA+ verification of aranya-core

aranya-core stores a graph of commands per team, evaluates policy on it,
synchronises it between devices, and carries data-plane channels over shared
memory. This directory models the parts that keep state, checks them with TLC
on small instances and proves the main results about six of them with TLAPS.
`PROJECT.json` lists the components, the runs, the mutants that show that a
property can fail, the source lines behind every definition, the hazards, the
findings and the theorems.

## The system and its parts

| Part | State | Operations | What is hard | Module |
|---|---|---|---|---|
| Linear storage file (`storage/linear/libc/imp.rs`) | two root pages, append-only data, root in memory | create, open with repair, append, commit | crash between any two writes, torn pages, I/O errors, repeated recovery | `LinearWriter` |
| Facts (`storage/linear/mod.rs`, `storage/memory.rs`) | fact indices in chains, segments, open perspective | insert, delete, query, add_command, checkpoint, revert, write, write_facts, compact | compaction at the depth limit, tombstones, replay inside a segment | `FactStore`, `MemoryFacts`, abstract `VersionedFacts` |
| Facts of a session (`client/session.rs`) | log and shared map of changes, open queries | insert, delete, query, query_prefix, checkpoint, revert | a query that goes on while the session changes or reverts, merging two sorted sources | `SessionFacts`, abstract `SessionView` |
| Command graph (`storage/mod.rs`, `linear/mod.rs`, `memory.rs`, `client.rs`) | segments, skip lists, head | write, merge, commit, get_location, is_ancestor, last common ancestor, braid | random skip lists, different segmentation per device, boundaries of max cut | `SegmentGraph` |
| Client and transactions (`client.rs`, `client/transaction.rs`) | graph, open transactions, sink | new_graph, action, add_commands, commit | commands in any order, actions and other transactions in between, a step that fails half way | `Transaction` |
| Sync (`sync/requester.rs`, `sync/responder.rs`, `aranya-quic-syncer`) | graph and peer cache of two devices, subscriptions | poll, response, push, subscribe, unsubscribe | lost and refused messages, stale caches, limits on samples and responses | `PeerSync` |
| Policy compiler (`aranya-policy-compiler`) | compile state, labels, program | compile, resolve, trace, validate | code whose stack and scopes stay in balance on every path; static checks that let nothing wrong pass | `PolicyCompiler`, `PolicyTracer`, reference `PolicySemantics` |
| Policy machine (`aranya-policy-vm`) | stack, scopes, calls, open queries | one per instruction | a run that stops anywhere, values at the edge of their range | `PolicyValues`, `PolicyMachine` |
| VM policy, its client, sessions (`vm_policy.rs`, `client.rs`, `client/session.rs`) | publish queue, facts, effects, graph head, sessions | action, rule, recall, merge, send, receive | an action that fails half way; messages lost, repeated or reordered | `VmPolicy`, `PolicyClient` |
| Key store (`keystore/`) | files and their locks | entry, get, insert, remove | locks of unlinked files, crashes and failing calls inside an insert | `FsKeyStore`, abstract `KeyStore` |
| Channel set-up and use (`aranya-afc-util`, `crypto/afc`, `fast-channels` client and memory state) | keys in the store, effects, channels, messages | create, the four handlers, add, remove, seal, open | effects handled twice, keys taken out by one of two clones, replaced channels | `AfcChannels` |
| Fast-channels mutex (`mutex.rs`) | key, threads | lock, unlock, futex wait and wake | lost wake-ups, spurious wakes | `FutexMutex`, abstract `AbstractLock` |
| Shared-memory channels (`shm/*.rs`) | two copies of the list, offsets, reader caches | add, update, remove, remove_all, remove_if, seal, open, exists | a writer between the copies while a reader uses them, stale caches | `ShmChannels` |

They interact as follows. A device's client adds commands to transactions; a
transaction runs the policy of each command on a perspective of the store,
writes perspectives as segments, braids two branches when it merges them, and
commits a head; the store keeps segments and fact indices in the file. The
syncer feeds commands of a peer to the client. A policy may set up a fast
channel: it leaves a secret in the key store and publishes a command, whose
effect lets the daemons of both devices derive the channel's keys and write
them into shared memory, where applications use them.

Some modules compose several parts: `AfcChannels` runs on `FsKeyStore`, system
call by system call; `PolicyClient` runs on `VmPolicy`, that on
`PolicyMachine`, and that on the output of `PolicyCompiler`; `SessionFacts`
runs on the indices of either store. Elsewhere a layer relies on the one below
through what is checked there: `Transaction` and `PeerSync` search by
reachability because `SegmentGraph` shows that the searches are exactly that;
`PolicyClient` has facts as a set because `FactStore` and `SessionFacts`
implement that; `Transaction` has rules that succeed or fail because
`PolicyClient` shows that a call does one or the other and leaves nothing
behind; and in `ShmChannels` the work on one copy of the list is one step
because `FutexMutex` provides mutual exclusion.

## The modules

**LinearWriter** follows the code system call by system call. The operating
system is two views of every page: the cached content, and the set of contents
that the medium may have if the power fails now. `dump` adds to the set, a
successful fsync reduces it. `Kill`, `PowerLoss` and `IoError` may strike at
every step; `Open` takes the root as `Writer::open` does and `Repair` rewrites
the worse side. History variables record what was acknowledged.

**FactStore** has one action per method of the perspectives and of linear
storage. A fact index is a map with a prior; `write_facts` compacts at
`MaxDepth`. **MemoryFacts** gives memory storage the same interface with its
own means: chains that are never compacted and shared indices. `provider`
chooses one of them at the start. **VersionedFacts** says what both are for:
each command has a version of the facts, and a perspective answers from the
version it was opened at and its own changes.

**SessionFacts** puts a session's log and map of changes in front of an index.
The map is shared with the queries that are open until the session changes it,
as the `Arc` in the code is; a query goes through the map and the index at
once. **SessionView** promises that a query answers with the facts of the
moment it was asked, in order, and that revert restores.

**SegmentGraph** builds every graph within the bounds, with every skip list that
`get_skip` can draw, or with none as in memory storage, and compares
`get_location_from`, `is_ancestor`, the last common ancestor and the braid with
definitions by reachability.

**Transaction** follows `add_commands` (`init`, `add_single`, `add_merge`,
`get_perspective`, `locate`) and `commit` with one action per merge. Policy is
a rule or a braid that succeeds or fails. `Uses` lists the ways to use it:
which transactions are open, whether one goes on after an error, whether
commands come again, and whether an action may publish nothing.

**PeerSync** has two devices with a `PeerCache` each. `Sync`, `SyncRefused` and
`SyncLost` are the outcomes of a poll, `Push` those of a push; `Action` adds
commands. The sample, the needed segments and the response are operators that
follow the loops of the code.

**PolicyCompiler** turns a policy, given as a tree, into instructions as
`compile.rs` does, for every kind of definition, statement and expression, with
its type checks. **PolicyTracer** follows all paths as `tracer.rs` does, with
the three analyzers. **PolicyMachine** executes one instruction per step.
**VmPolicy** adds `call_action` with its publish loop, `call_rule` with open,
policy and recall, and **PolicyClient** the callers: actions on a graph,
commands that arrive, braids, and two sessions that exchange messages.
**PolicySemantics** says what the source of a policy means without any of
them, by structural recursion over the tree.

**FsKeyStore** has one action per system call that another thread can notice;
locks belong to files and not to names. A call may fail and a process may die
anywhere. **KeyStore** is a map on which each call takes effect at one moment;
it is also the in-memory store. **AfcChannels** adds the FFI of the author's
policy, the handlers on both devices, and the channels they fill. Keys are
terms that are equal when they were derived from the same secrets and context.

**FutexMutex** has one action per atomic operation or system call of
`sys_lock` and `sys_unlock`; `casMutex` selects the implementation. The
kernel's futex is external: it compares and sleeps atomically, wakes any one
sleeper, and may return without a wake. **AbstractLock** is a lock with a
holder.

**ShmChannels** has the writer's operation in its halves (first copy, swap of
`read_off`, second copy, store of `write_off`) and the reader's call in its
steps (load of the offset, then the work under the lock, with the generation
read before it). `window` records what the list held while a call was running.

Modules whose name begins with `MC` give the constants small values. Modules
whose name ends in `Proofs` hold the theorems.

## The runs

| Run | Instance | Shows |
|---|---|---|
| `writer` | 3 slots, 2 items, 7 generations, 4 faults of any kind | no acknowledged commit is rolled back, its data stay, no head dangles; one power failure after a complete root write leaves a root; without I/O errors equal generations are equal roots; a file whose process is only killed reopens |
| `channels` | the mutex with 3 threads, 2 locks for two of them, both builds; channels in 7 plans with up to 2 channels, 2 handlers and 1 fault | mutual exclusion, no sleeper is forgotten, every lock returns, refinement of `AbstractLock`; a device opens exactly what was sealed for the channel it holds, no key uses a sequence number twice while the author's effect is handled at most twice, the file store implements `KeyStore` for plans with at most two removes of a key |
| `shm` | 3 channels, lists of 2, 3 operations, 1 reader with 1 seal | copies agree between operations, reads return what the list held at some time during the call, a cached key is never stale |
| `facts` | 1 name, 1 key, depth 2, 2 segments, 1 braid, either provider; sessions of 2 changes on an index of 2 maps, 1 query | chains keep their depth, both stores implement `VersionedFacts` except for one way to open a perspective (below), sessions implement `SessionView` |
| `graph` | 5 segments of up to 2 commands with and without skip lists; 6 segments of 1 command with 2 priorities | searches are exact, every skip dominates what it skips, the braid is the one that the commands determine |
| `trx` | 6 commands of a peer in any order with 1 action and 6 segments; 2 transactions that go on after errors, with resends and empty actions | what was added is held by a head until commit and is in the graph once after it, merges are of incomparable commands, no `bug!` is reached; no commit loses a committed command |
| `sync` | 3 commands in actions of up to 2, responses of 3, caches of 2 | see below |
| `policy` | policies that use every kind of statement and expression, integers from -2 to 2, up to a few calls each | a call leaves what the source of the policy says, except that one which publishes two commands on a graph fails; what the tracer lets pass of an action or a block of a command does not go wrong; the machine is in balance, a check leaves no trace, sessions agree; every call returns unless functions call each other without end |
| `keystore`, `shm_seq`, `facts_revert`, `sync_stuck` | small | the disagreements below |

`sync` checks that a response never lacks a parent (`AncestorsFirst`), that cached
heads are in the graph and none is before the segment of another
(`HeadsLocated`), and that one poll brings everything unless the response was cut short
(`OnePollSuffices`), whatever was lost or refused before; so an empty response
means that nothing is missing.

Bounds. Each is the smallest at which the interesting case happens, and a
mutant of the code's definition shows for each property that it does: chains
exceed their limit and are compacted again (`facts`), lists and caches fill up
(`shm`, `sync`), responses are cut inside a segment (`sync`), merges of merges
occur (`graph`), two removers of one key and a crash meet (`channels`), integers
overflow and functions recurse (`policy`; `MaxCalls` is more than the recursion
that ends needs), and four faults cover a failure, a failed recovery, and
the failure of its repetition (`writer`). Identifiers of channels are
symmetric; those of commands are not, because their order decides merges.

Deadlock is checked except in `writer`, where the bounds on slots, generations
and faults may leave nothing to do, and in `policy`, where a client stops after
the calls it was given, or in the midst of calls that are `MaxCalls` deep. Where
a part may rest, an action says when (`Terminating`, `ChannelsRest`): any other
state without a step is an error.

Fairness. In `channels` every thread in lock or unlock that can take its next
step does so eventually, which the operating system's scheduler gives; nothing
is assumed about spurious wakes or about calling lock. In `policy` a call that
was made is run to its end by the thread that made it; nothing is assumed about
making calls or about messages. The sync properties are stated as invariants
over "the next poll" and need no fairness.

## The proofs

**The file.** `LinearWriterProofs` proves `TypeOK`, `RecoveryKeepsCommit`,
`CommittedDataDurable`, `HeadNeverDangles` and `OneRootSurvives` for every
number of slots, items, generations and faults, from `ConstantsAssumption`
alone (the marker of an unwritten slot is not an item; the bounds are natural
numbers, with at least one slot). None of them is inductive. The invariant
`IInv` adds: what is cached is among what the medium may hold; every valid root
that a failure may produce, and the root in memory, is at least as new as the
acknowledged one, has a head that was acknowledged or attempted, and a free
offset above every protected slot (`RootsGood`); protected slots hold one item
on the medium whatever is pending (`DataSafe`); where in a root write each side
is flushed (`SidesSafe`). The free offset of *every* root that may survive must
be above *every* slot that a root may name: otherwise a reopened writer could
append over a committed segment. There is one lemma per action, and lemmas for
what a write, a flush and a torn write do to the pages.

It also proves `SameGenerationSameRoot` and `KilledFileOpens`. As long
as no write or sync failed, one side of the page cache always holds the newest
root that the medium may hold, and it is the side that the write in progress
does not touch (`NewestKept`); so a new root gets a generation that no other
root has.

**The mutex.** `LockAndStoreProofs` proves `MutualExclusion`, `NoLostWakeup` and
the refinement of `AbstractLock` for any set of threads and both builds, and
`KeyTellsHolder`, on which they rest. The invariant says that the key is
UNLOCKED exactly when nobody holds the lock, and that while somebody sleeps,
the key is SLEEPING, or a thread is about to wake one, or a thread that will
leave SLEEPING in the key is on its way.

**The channel lists.** `ShmChannelsProofs` proves `SidesAgree` for any channels,
readers, capacity, number of operations and width of the generation. The
invariant: between the halves of an operation one copy is what the operation
makes of the other, and the operation, which was decided on the first copy,
fits the second (`WriterInv`). Of the lemmas about lists, the one that matters
is that an operation does the same to two copies with the same channels. For
`remove_if` this is an induction over the rounds of its loop. The module begins
with induction for sets of numbers, which the provers can use, and from it the
existence of the function that a loop computes.

`ShmReadsProofs` proves `CacheSound` and `RegularReads` under `NoWrap`, which
says that there are fewer operations than generations: the code compares
generations of 32 bits for equality and has nothing else to go by. The
invariant says that the copy at `write_off` has the newest generation and that
copies of the same generation agree; that a cache entry is of no generation
still to come and fits every copy of its own; and that a call may still give
the answer of the copy it loaded and of both that are or will be current.

**The key store and the channels set up with it.** `AfcChannelsProofs` proves
`OpensExactly` for any threads, identifiers, plans of channels, effects handled
any number of times, removals, failing system calls and dying processes, from
two assumptions: the keys that are stored at the start and those that a plan
asks for have identifiers (`StoreAssumption`, `ChannelsAssumption`). The run
checks it with two channels. Two invariants carry it.

`StoreInv` (`LockAndStoreProofs`) is about the store alone. The identifier that a
file was *created for* never changes, while names are unlinked and given to
other files under the callers' feet; every name leads to a file created for it,
a call's descriptor is a file created for the call's identifier, and a whole
file holds the key of the identifier it was created for. So `get` and `remove`
return the key they were asked for or none, although a descriptor may be of a
file that has no name any more. Nothing is said about how often a key is
returned; the run `keystore` shows that it can be too often.

`AfcInv` says that no two commands and no thread that is creating one share a
root key (`CommandsInv`, `WorkInv`); that a handler waits for the key its
command names; that a channel holds the two keys of its command and sits under
the command's label and the other device (`ChanInv`); and that a message was
sealed with the key of its command (`SentInv`). The derivations of the two
devices then agree because a key determines the root key and the direction
(`KeysMatch`), and root keys are never shared.

**Transactions.** `TransactionProofs` proves `CommittedKept` and `NoLoop` (commit
never comes to merge with the head of the graph a second time) for any use of
the client, and for `Careful` uses `AddedHeld`, `Delivered` and `HasPerspective`
(the `assume` of `get_perspective` does not fail). They hold for any number of
commands, segments and transactions that are open at a time; the run has one
careful transaction after the other. `IdsAssumption` is what they rest on: an id
determines its command, so the merge of two commands has the same id wherever it
is made, and no other command has it. The invariant has five parts.

- `GraphInv`: priors of a segment are in earlier segments, and the head is in the
  graph unless there is none. `CommittedKept` comes down to
  this: what is up to a location stays the same when segments are appended, and
  a new head is accepted only when the old one is before its segment.
- `TrxInv`: the priors of the perspective and the heads of a transaction are
  locations of the graph, and the heads are listed under their ids.
- `CommitInv`: what is left to merge is in the graph; once commit has queued the
  head of the graph (`merging`) the head is in the queue, or before what is left.
- `CareInv`, for careful uses: commands in the graph and in perspectives have the
  parents that their ids stand for, and `phead` is the last command of the open
  perspective, which is not empty.
- `KeptInv`: what was added is held, queued or committed; what was delivered is
  committed.

`CareInv` is what `AddedHeld` needs and a transaction alone cannot give. When a
perspective is opened, the heads with the id of a parent are dropped; but
`locate` may have found the parent elsewhere in the graph, at a location that
another transaction wrote. Nothing is lost only because everything up to that
location has the same ids as everything up to the head that was dropped. That in
turn is an induction over the graph (`TransactionGraphProofs`).

`TransactionOnceProofs` proves `CommittedOnce`, `NoBug` and `QueueIncomparable`
(the heads that commit has still to merge are neither equal nor ancestors of each
other) for careful uses that open one transaction after the other (`Alone`), with
any number of commands and segments, failed commits and actions in between. With
two transactions at a time they are false: both may write the same command, and
the second commit then merges the two copies. The invariant `OnceInv` is about
the *reach* of a transaction: all that is up to one of its heads, the priors of
its perspective, or the head of the graph.

- What is in reach is there once, by id. `segs` itself may hold a command twice,
  because what a failed transaction wrote stays behind, out of reach.
- A segment is in reach as a whole or not at all. `locate` starts at the head of
  the graph or of the transaction and looks through whole segments, so what it
  returns is in reach too.
- Every head of the transaction is the last of its segment, and nothing in reach
  is after it. This is what makes the heads incomparable, and it is why a head
  has to go when a perspective is opened on it.
- What is in reach and not in the graph was added by the transaction. So a command
  that `locate` does not find and that was not added before is not in reach, even
  where `locate` does not look: before the open perspective, whose head is gone.

While commit is merging, `QueueOK` says the same of what is queued; a merge of two
of them is new because one of its parents has no child in reach.

`MergesIncomparable` is about every merge in the graph, the peers' included. It is
proved from `[]PeersMerge`: where both parents of a merge that a peer sends are in
the graph, neither is an ancestor of the other. A peer whose own graph has the
property sends only such merges, and the commands of the run are of that kind. The
merges that commit makes are in it by `QueueIncomparable`.

**Only model-checked**, and why:

- liveness (`EveryLockReturns`, `EveryCallReturns`) is outside the prover's
  reach, as is ENABLED;
- `SegmentGraph`, `PeerSync` and the policy modules use RECURSIVE operators, in
  whose presence the prover loses its arithmetic; their searches, samples and
  programs are recursive in the code too, and what a recursion computes for
  every input is an induction over data;
- `SeqUnique` is stated for effects that the author handles at most twice: with a
  third handling `remove` may return the secret twice (run `keystore`), and two
  channels start with the same key;
- `DepthRight`, whose chains are walked by recursion;
- the refinements of `KeyStore`, `VersionedFacts` and `SessionView`, whose
  mappings choose a linearization point with hindsight or fold over a chain.

## Disagreements between the code and its documents

With a run that shows them:

- `keystore`: `remove` unlinks whatever file has the key's name
  (`store.rs:255`). One that waits for the lock of a file that another remover
  unlinks may unlink the temporary file of a third and return the key again,
  although `remove` "Retrieves and removes a stored `WrappedKey`"
  (`keystore/mod.rs:43`).
- `shm_seq`: after the list changed, `seal` starts from the sequence number in
  the list, which lags behind the cache; the write-back contradicts the
  `debug_assert!` of `set_seq` (`shm/shared.rs:503`).
- `facts_revert`: `revert` returns early when no command was added since the
  checkpoint (`linear/mod.rs:1048`) and keeps the changes of the failed rule.
- `sync_stuck`: a device whose own head is in its peer cache, while the peer
  does not have that head, samples only that head; the peer sends the beginning
  of its graph; once the common history is longer than a response, every poll
  repeats this. The trace has a poll whose commit failed after `add_commands`
  had put the head into the cache.

Met while modelling. The property that would fail names the case as an exception
or a condition, or none is stated about it:

- The repair of `open` is not flushed (`imp.rs:135`), so a second power failure
  can leave both roots torn; `OneRootSurvives` starts from a complete root write.
- A creation cut short leaves a file that opens with the placeholder head,
  because appends increment the generation that `head` tests (`imp.rs:169`).
- `SameGenerationSameRoot` fails when a kill, an I/O error and a power failure
  come together: a failed write leaves the root in memory ahead of the file.
- `get_linear_perspective` inside a segment without updates starts one index
  too early (`linear/mod.rs:407`; `get_fact_perspective` guards against it at
  450). The run opens such perspectives; `FactsRefinement` admits them with the
  facts they have (`OpensEarly`), and fails without this exception.
- A transaction used after an error: `add_merge` leaves `phead` without a
  perspective (`transaction.rs:257`), a rule that fails after the perspective
  was opened loses the head (`:329`), a command received twice while its
  perspective is open is added twice (`:183`), and two transactions with the
  same command merge it with itself (`:96`). The callers in the repository drop
  a transaction after an error.
- An action that publishes nothing leaves the sink begun (`client.rs:181`).
- `call_action` gives every command it publishes the same parent
  (`vm_policy.rs:599`), although line 53 speaks of "the first command produced by"
  an init action. On a graph the second cannot be added and the call fails.
  Several programs of `policy` do this; it is the exception of `RunsAsWritten`.
- A function may call itself (`compile.rs:1243`), and the machine has no limit to
  the depth of calls. `EveryCallReturns` excepts runs that come to `MaxCalls`.
- The key store: `entry` expects ENOENT when another caller created the file
  first, but openat answers EEXIST (`store.rs:140`); a `get` that overlaps a
  failing `insert` may return its key; and when both the flush and the unlink
  after it fail, `insert` returns an error and the key is stored.
- A peer's handler that is given the same effect twice derives the same keys
  and starts again with sequence number 0; the application has to see to it.
- `validate` of the compiler returns TRUE when an analyzer reported something
  (`PolicyTracer!Validate`), while the compiler's `main.rs:58` takes TRUE for a
  valid policy; and the tracer follows a loop for ever.
- `FunctionAnalyzer` "Ensures that all function branches return a value", but it
  takes the return of a function that is called for one of the caller: a function
  that returns on one branch and only calls another function on the other one
  passes, and panics there when it runs. `TracerSound` is not about functions.
- The cache of a peer's heads may hold a command and its child of the same
  segment, because `is_ancestor` does not look inside one (`responder.rs:53`);
  with `PEER_HEAD_MAX` entries such a pair takes the place of a live head.
- Sync: the index of a response counts segments though the document says that
  it is incremented (`responder.rs:83`, `:361`); the rest of a segment cut
  short is not sent in the session (`:506`); a full segment buffer drops the
  location found first, which may be an ancestor of those kept (`:315`).
- Two devices that sync with each other hold their syncers while they wait.

## Not modelled, and why

In the modelled parts: file locks, directory entries and byte encoding
(`LinearWriter`); the canary file and the encoding of keys (`FsKeyStore`); a
process that dies while it holds the mutex, which the code does not handle; the
wrap of the generation in shared memory, which `GenModulus` provides for but
the run does not reach; encryption; message buffers and headers; the
serialization of policy modules and the wording of compile errors; later
responses of a sync session, `SyncResume`, `RequestMissing` and `Offer`, which
no caller drives; `MAXIMUM_SUBSCRIPTIONS`, more than two devices, and byte
limits of messages.

Parts without a module: the parser and the syntax tree, the derive macros and
interface generators, and the C API generators compute text from text and keep
no state; the header of C API objects limits what undefined behaviour of a
caller can do, and such behaviour is outside any specification of this code;
cryptography and the policy FFIs over it are computations whose correctness is
not a question of steps; the libc wrapper is modelled where its callers rely on
it; the model runner, the explorer, and the test protocol and DSL are tools for
tests. These parts are the larger half of the repository's lines.
