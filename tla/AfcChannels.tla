---------------------------- MODULE AfcChannels ----------------------------
(***************************************************************************)
(* How two devices come to share a fast channel, and what they send        *)
(* through it (aranya-afc-util: ffi.rs, handler.rs, transform.rs;          *)
(* aranya-crypto: afc/; aranya-fast-channels: client.rs, memory.rs,        *)
(* state.rs, header.rs), with the key store of FsKeyStore underneath.      *)
(*                                                                         *)
(* A policy of the author's device calls the FFI, which makes a root key,  *)
(* encapsulates it for the peer, and puts the author's secret into the     *)
(* key store.  The policy publishes a command with the encapsulation and   *)
(* the secret's identifier.  The command's effect reaches the handlers of  *)
(* both devices: the author's takes the secret out of the store, the       *)
(* peer's uses the encapsulation, and each derives its keys and adds them  *)
(* to its fast channels.  From then on the devices seal and open messages. *)
(*                                                                         *)
(* Keys are terms: two are equal exactly when they were derived from the   *)
(* same secrets with the same context.  The HPKE functions, which are in   *)
(* another crate, are modelled so.                                         *)
(***************************************************************************)
EXTENDS FsKeyStore, FiniteSets

CONSTANTS
  HomeOf,     \* the device of each thread, 1 (the author's) or 2 (the peer's)
  FfiCallers, \* the threads that run policies
  Plans,      \* what a behaviour asks for, [asks, old, handlers, effects, faults]:
              \* the channels, a sequence of [kind, label]; how many of them the author
              \* made before its process was last started; the threads of its handler;
              \* bound: how often they are given each effect; bound: how many faults
              \* there may be.  A kind that is a call of the store stands for no channel
              \* but for this call by the application, for a key of its own
  MaxSeq,     \* how many messages a key may seal
  MaxSent     \* bound: how many messages are sealed altogether

VARIABLES
  plan,       \* what this behaviour asks for
  asked,      \* how many of its channels have been asked for
  work,       \* what each thread is doing, besides its call of the store
  commands,   \* the published commands
  effects,    \* how often the author's handler has been given the effect of each
  received,   \* the commands whose effect the peer's handler has turned into keys
  chans,      \* memory.rs `chans': the channels of each device
  sent        \* the messages sealed so far

afcVars == <<plan, asked, work, commands, effects, received, chans, sent>>

channelVars == <<storeVars, afcVars>>

Author == 1
Peer == 2
Devices == {Author, Peer}

EncKeyId(d) == <<"enc", d>>
ChannelKeyId(root) == <<"channel", root>>
AppKeyId == <<"app", 0>>

ChannelKinds == {"bidi", "seal", "open"}

\* The channels of an earlier process come first, and every key has an identifier.
ASSUME ChannelsAssumption ==
  /\ {EncKeyId(Author), EncKeyId(Peer), AppKeyId} \subseteq Ids
  /\ \A p \in Plans :
       /\ Len(p.asks) \in Nat
       /\ p.old \in 0 .. Len(p.asks)
       /\ \A root \in 1 .. p.old : p.asks[root].kind \in ChannelKinds
       /\ \A root \in 1 .. Len(p.asks) :
            p.asks[root].kind \in ChannelKinds => ChannelKeyId(root) \in Ids

(***************************************************************************)
(* aranya-crypto, afc/.  HPKE is external: a context is known by the root  *)
(* key, the two encryption keys and the info; from it come its own key     *)
(* and the exported ones.                                                  *)
(***************************************************************************)
SetupSend(our_sk, their_pk, info, root) ==
  [root |-> root, from |-> our_sk, to |-> their_pk, info |-> info]

SetupRecv(their_pk, enc, our_sk, info) ==
  [root |-> enc, from |-> their_pk, to |-> our_sk, info |-> info]

RawKey(ctx) == <<"key", ctx>>
Export(ctx) == <<"bidi response key", ctx>>

\* BidiChannel and UniChannel are one record here; the first has no use for seal_id
\* and open_id.
AuthorInfo(ch) == <<"AfcChannelKeys", ch.parent, ch.our_id, ch.their_id, ch.label>>

\* As PeerInfo, but not reversed.
PeerInfoForward(ch) == <<"AfcChannelKeys", ch.parent, ch.our_id, ch.their_id, ch.label>>

PeerInfo(ch) == <<"AfcChannelKeys", ch.parent, ch.their_id, ch.our_id, ch.label>>

UniInfo(ch) == <<"AfcUnidirectionalKey", ch.parent, ch.seal_id, ch.open_id, ch.label>>

NoKey == <<"none", 0>>

\* Directed: NoKey stands for the half that a unidirectional channel does not have.
BidiFromAuthorSecret(ch, root) ==
  LET ctx == SetupSend(ch.our_sk, ch.their_pk, AuthorInfo(ch), root)
  IN [seal |-> RawKey(ctx), open |-> Export(ctx)]

BidiFromPeerEncap(ch, enc) ==
  LET ctx == SetupRecv(ch.their_pk, enc, ch.our_sk, PeerInfo(ch))
  IN [seal |-> Export(ctx), open |-> RawKey(ctx)]

UniKey(ch, ctx) ==
  IF ch.our_id = ch.seal_id THEN [seal |-> RawKey(ctx), open |-> NoKey]
  ELSE [seal |-> NoKey, open |-> RawKey(ctx)]

UniFromAuthorSecret(ch, root) ==
  UniKey(ch, SetupSend(ch.our_sk, ch.their_pk, UniInfo(ch), root))

UniFromPeerEncap(ch, enc) ==
  UniKey(ch, SetupRecv(ch.their_pk, enc, ch.our_sk, UniInfo(ch)))

(***************************************************************************)
(* memory.rs.  A channel is found by the other device and the label.  The  *)
(* sequence number of the key that seals is part of it and starts at zero. *)
(***************************************************************************)
Add(d, id, keys, command) ==
  chans' = [chans EXCEPT ![d] =
    [i \in DOMAIN @ \cup {id} |->
       IF i = id THEN [seal |-> keys.seal, open |-> keys.open, seq |-> 0, command |-> command]
       ELSE @[i]]]

RemoveIf(d, ids) ==
  chans' = [chans EXCEPT ![d] = [i \in DOMAIN @ \ ids |-> @[i]]]

(***************************************************************************)
(* What a thread does between its calls of the store.                      *)
(***************************************************************************)
\* What the policy publishes for the channel with this root key.
CommandOf(root) ==
  [parent |-> root, kind |-> plan.asks[root].kind, label |-> plan.asks[root].label,
   encap |-> root, key_id |-> ChannelKeyId(root)]

NoWork == [task |-> "none", command |-> 0, root |-> 0]

AfcInit ==
  /\ plan \in Plans
  /\ faults = plan.faults
  /\ asked = plan.old
  /\ work = [t \in Callers |-> NoWork]
  /\ commands = [root \in 1 .. plan.old |-> CommandOf(root)]
  /\ effects = [root \in 1 .. plan.old |-> 0]
  /\ received = {}
  /\ chans = [d \in Devices |-> <<>>]
  /\ sent = {}

Idle(t) == work[t] = NoWork /\ calls[t].at = "done"

\* The thread's call of the store has returned.
Returned(t, task) == work[t].task = task /\ calls[t].at = "done"

GotKey(t) == calls[t].result[1] = "key"

Start(t, task, command, root) ==
  work' = [work EXCEPT ![t] = [task |-> task, command |-> command, root |-> root]]

GoOnWith(t, task) == work' = [work EXCEPT ![t].task = task]

Finish(t) == work' = [work EXCEPT ![t] = NoWork]

QuietStore == UNCHANGED <<dir, files, flocks, faults>>

\* Any error ends the thread's work.
Fails(t) ==
  /\ Finish(t)
  /\ UNCHANGED <<storeVars, plan, asked, commands, effects, received, chans, sent>>

(***************************************************************************)
(* The application stores its key and looks it up.                         *)
(***************************************************************************)
Asks(kinds) == asked < Len(plan.asks) /\ plan.asks[asked + 1].kind \in kinds

AppCalls(t) ==
  /\ t \in plan.handlers /\ Idle(t)
  /\ Asks({"insert", "get"})
  /\ asked' = asked + 1
  /\ Start(t, "app", 0, 0)
  /\ LET op == plan.asks[asked + 1].kind
     IN Invoke(t, op, AppKeyId, IF op = "insert" THEN AppKeyId ELSE Absent)
  /\ QuietStore /\ UNCHANGED <<plan, commands, effects, received, chans, sent>>

AppReturns(t) ==
  /\ Returned(t, "app")
  /\ Finish(t)
  /\ UNCHANGED <<storeVars, plan, asked, commands, effects, received, chans, sent>>

(***************************************************************************)
(* ffi.rs: create_bidi_channel and create_uni_channel.  The root key is    *)
(* random, so it is new; the identifier is that of the encapsulation.      *)
(***************************************************************************)
CreateChannel(t) ==
  /\ t \in FfiCallers /\ Idle(t)
  /\ Asks(ChannelKinds)
  /\ asked' = asked + 1
  /\ Start(t, "create: key", 0, asked + 1)
  /\ Invoke(t, "get", EncKeyId(Author), Absent)
  /\ QuietStore /\ UNCHANGED <<plan, commands, effects, received, chans, sent>>

CreateSecrets(t) ==
  /\ Returned(t, "create: key")
  /\ \/ /\ GotKey(t)
        /\ GoOnWith(t, "create: insert")
        /\ Invoke(t, "insert", ChannelKeyId(work[t].root), ChannelKeyId(work[t].root))
        /\ QuietStore /\ UNCHANGED <<plan, asked, commands, effects, received, chans, sent>>
     \/ ~GotKey(t) /\ Fails(t)

\* The policy publishes what the FFI returned.
CreateReturns(t) ==
  /\ Returned(t, "create: insert")
  /\ \/ /\ calls[t].result = <<"ok">>
        /\ commands' = Append(commands, CommandOf(work[t].root))
        /\ effects' = Append(effects, 0)
        /\ Finish(t)
        /\ UNCHANGED <<storeVars, plan, asked, received, chans, sent>>
     \/ calls[t].result # <<"ok">> /\ Fails(t)

(***************************************************************************)
(* handler.rs.  An effect is for the device it names; on the other one the *)
(* call returns NotAuthor or NotRecipient at once.  The application must   *)
(* not hand over an effect that has become keys of the peer again, as they *)
(* would be the same keys.  The author's effect may be, at any time and to *)
(* any clone of the handler, as its secret can be taken only once; it is   *)
(* gone from the start for a channel made in an earlier process.           *)
(***************************************************************************)
ChannelOf(command, us, our_sk) ==
  LET them == 3 - us
      other(d) == 3 - d
      seal_id == IF command.kind = "seal" THEN Author ELSE Peer
  IN [parent |-> command.parent, our_sk |-> our_sk, our_id |-> us,
      their_pk |-> EncKeyId(them), their_id |-> them,
      seal_id |-> seal_id, open_id |-> other(seal_id), label |-> command.label]

\* What the handlers derive once they have read the keys.
AuthorKeys(command, our_sk, root) ==
  LET ch == ChannelOf(command, Author, our_sk)
  IN IF command.kind = "bidi" THEN BidiFromAuthorSecret(ch, root) ELSE UniFromAuthorSecret(ch, root)

PeerKeys(command, our_sk) ==
  LET ch == ChannelOf(command, Peer, our_sk)
  IN IF command.kind = "bidi" THEN BidiFromPeerEncap(ch, command.encap)
     ELSE UniFromPeerEncap(ch, command.encap)

\* bidi_channel_created and uni_channel_created: first the secret ...
ChannelCreated(t, c) ==
  /\ t \in plan.handlers /\ Idle(t)
  /\ effects[c] < plan.effects
  /\ effects' = [effects EXCEPT ![c] = @ + 1]
  /\ Start(t, "created: secret", c, 0)
  /\ Invoke(t, "remove", commands[c].key_id, Absent)
  /\ QuietStore /\ UNCHANGED <<plan, asked, commands, received, chans, sent>>

\* ... then the encryption key ...
CreatedSecret(t) ==
  /\ Returned(t, "created: secret")
  /\ \/ /\ GotKey(t)
        /\ Start(t, "created: key", work[t].command, calls[t].result[2][2])
        /\ Invoke(t, "get", EncKeyId(Author), Absent)
        /\ QuietStore /\ UNCHANGED <<plan, asked, commands, effects, received, chans, sent>>
     \/ ~GotKey(t) /\ Fails(t)

\* ... and the keys, which are added to the fast channels.
CreatedKeys(t) ==
  /\ Returned(t, "created: key")
  /\ \/ /\ GotKey(t)
        /\ LET command == commands[work[t].command]
           IN Add(Author, <<Peer, command.label>>,
                  AuthorKeys(command, calls[t].result[2], work[t].root), work[t].command)
        /\ Finish(t)
        /\ UNCHANGED <<storeVars, plan, asked, commands, effects, received, sent>>
     \/ ~GotKey(t) /\ Fails(t)

\* bidi_channel_received and uni_channel_received.
ChannelReceived(t, c) ==
  /\ HomeOf[t] = Peer /\ Idle(t)
  /\ c \notin received
  /\ Start(t, "received: key", c, 0)
  /\ Invoke(t, "get", EncKeyId(Peer), Absent)
  /\ QuietStore /\ UNCHANGED <<plan, asked, commands, effects, received, chans, sent>>

ReceivedKeys(t) ==
  /\ Returned(t, "received: key")
  /\ \/ /\ GotKey(t)
        /\ LET command == commands[work[t].command]
           IN Add(Peer, <<Author, command.label>>,
                  PeerKeys(command, calls[t].result[2]), work[t].command)
        /\ received' = received \cup {work[t].command}
        /\ Finish(t)
        /\ UNCHANGED <<storeVars, plan, asked, commands, effects, sent>>
     \/ ~GotKey(t) /\ Fails(t)

(***************************************************************************)
(* client.rs.  seal finds the key, encrypts under its next sequence number *)
(* with the label as authenticated data, and appends the label and the     *)
(* number.  A message is known by its key, so its text is left out.  It    *)
(* may be lost, repeated and overtaken: `sent' is all that may arrive.     *)
(***************************************************************************)
Seal(d, id) ==
  LET ch == chans[d][id]
  IN /\ Cardinality(sent) < MaxSent
     /\ ch.seal # NoKey
     /\ ch.seq < MaxSeq
     /\ chans' = [chans EXCEPT ![d][id].seq = @ + 1]
     /\ sent' = sent \cup {[n |-> Cardinality(sent) + 1, from |-> d, to |-> id[1],
                            key |-> ch.seal, nonce |-> ch.seq, ad |-> id[2],
                            label |-> id[2], seq |-> ch.seq, command |-> ch.command]}
     /\ UNCHANGED <<storeVars, plan, asked, work, commands, effects, received>>

\* open changes nothing: it parses what was appended, finds the key and decrypts.
Open(d, peer, m) ==
  LET id == <<peer, m.label>>
  IN IF id \notin DOMAIN chans[d] THEN "NotFound"
     ELSE IF chans[d][id].open = NoKey THEN "NotFound"
     ELSE IF m.key = chans[d][id].open /\ m.nonce = m.seq /\ m.ad = id[2] THEN "Ok"
     ELSE "Authentication"

\* AranyaState::remove, remove_all, remove_if.
RemoveChannels(d) ==
  /\ \E ids \in SUBSET DOMAIN chans[d] : ids # {} /\ RemoveIf(d, ids)
  /\ UNCHANGED <<storeVars, plan, asked, work, commands, effects, received, sent>>

\* The device's process dies, and with it its threads and its channels.
Crash(d) ==
  LET lost == {t \in Callers : HomeOf[t] = d}
  IN /\ Die(lost)
     /\ work' = [t \in Callers |-> IF t \in lost THEN NoWork ELSE work[t]]
     /\ chans' = [chans EXCEPT ![d] = <<>>]
     /\ UNCHANGED <<plan, asked, commands, effects, received, sent>>

ChannelNext ==
  \/ \E t \in Callers :
       \/ StoreStep(t) /\ UNCHANGED afcVars
       \/ SystemCallFails(t) /\ UNCHANGED afcVars
       \/ AppCalls(t) \/ AppReturns(t)
       \/ CreateChannel(t) \/ CreateSecrets(t) \/ CreateReturns(t)
       \/ \E c \in DOMAIN commands : ChannelCreated(t, c) \/ ChannelReceived(t, c)
       \/ CreatedSecret(t) \/ CreatedKeys(t) \/ ReceivedKeys(t)
  \/ \E d \in Devices :
       \/ \E id \in DOMAIN chans[d] : Seal(d, id)
       \/ RemoveChannels(d)
       \/ Crash(d)

\* No thread is doing anything.  There may be nothing left to do.
ChannelsRest == (\A t \in Callers : Idle(t)) /\ UNCHANGED channelVars

ChannelInit == StoreInit /\ AfcInit

ChannelSpec == ChannelInit /\ [][ChannelNext]_channelVars

(***************************************************************************)
(* Correctness.                                                            *)
(***************************************************************************)
\* The calls of the file store are those of a map of keys, whatever opens, creates,
\* flocks and unlinks come between (fs_keystore/store.rs entry, get, insert, remove,
\* drop).  This is so in plans where at most two calls remove a key and at most one
\* system call fails or one process dies.  With a third remove it is not.
StoreRefinement == Promise!Spec

\* A device opens a message as one from the other exactly when the other sealed it
\* for the channel that the device holds now under its label: whatever channels were
\* replaced, removed, lost with a process or made only on one side, the two
\* derivations give the same key, and no other pair of keys does, not even the two
\* of one device (bidi.rs and uni.rs from_author_secret, from_peer_encap; client.rs open).
OpensExactly ==
  \A d \in Devices, peer \in Devices, m \in sent :
    LET id == <<peer, m.label>>
    IN Open(d, peer, m) = "Ok" <=>
         /\ m.from = peer /\ m.to = d /\ d # peer
         /\ id \in DOMAIN chans[d] /\ chans[d][id].command = m.command

\* No key seals two messages under one sequence number, although every `add' starts
\* at zero, when the author's effect is handled at most twice, by one handler or by
\* two clones at a time: of two calls of remove only one gets the author's secret
\* (handler.rs bidi_channel_created).  With three handlings two of them may get it,
\* and then the key is used again from zero.
SeqUnique ==
  (\A c \in DOMAIN effects : effects[c] <= 2) =>
    \A m1, m2 \in sent : m1.key = m2.key /\ m1.nonce = m2.nonce => m1 = m2

=============================================================================
