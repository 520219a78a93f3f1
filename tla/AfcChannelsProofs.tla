------------------------- MODULE AfcChannelsProofs -------------------------
(***************************************************************************)
(* OpensExactly for any threads, plans of channels, faults and numbers of  *)
(* messages.                                                               *)
(***************************************************************************)
EXTENDS AfcChannels, LockAndStoreProofs

-----------------------------------------------------------------------------
(* The keys of a channel.                                                  *)

Other(d) == 3 - d

\* What the handler of device d derives for command c from the right secrets.
KeysOf(d, c) ==
  IF d = Author THEN AuthorKeys(c, EncKeyId(Author), c.encap) ELSE PeerKeys(c, EncKeyId(Peer))

BidiContext(c) ==
  [root |-> c.encap, from |-> EncKeyId(Author), to |-> EncKeyId(Peer),
   info |-> <<"AfcChannelKeys", c.parent, Author, Peer, c.label>>]

Sealer(c) == IF c.kind = "seal" THEN Author ELSE Peer

UniContext(c) ==
  [root |-> c.encap, from |-> EncKeyId(Author), to |-> EncKeyId(Peer),
   info |-> <<"AfcUnidirectionalKey", c.parent, Sealer(c), Other(Sealer(c)), c.label>>]

\* The two devices of a bidirectional channel come to one context, although
\* they know each other's halves of the keys and see the names reversed
\* (BidiFromAuthorSecret, BidiFromPeerEncap).
LEMMA BidiKeys ==
  ASSUME NEW c, c.kind = "bidi"
  PROVE  /\ KeysOf(Author, c) = [seal |-> RawKey(BidiContext(c)), open |-> Export(BidiContext(c))]
         /\ KeysOf(Peer, c) = [seal |-> Export(BidiContext(c)), open |-> RawKey(BidiContext(c))]
<1> DEFINE us == ChannelOf(c, Author, EncKeyId(Author))
           them == ChannelOf(c, Peer, EncKeyId(Peer))
<1>1. /\ us.parent = c.parent /\ us.our_id = Author /\ us.their_id = Peer /\ us.label = c.label
      /\ us.our_sk = EncKeyId(Author) /\ us.their_pk = EncKeyId(Peer)
  BY DEF ChannelOf, Author, Peer
<1>2. /\ them.parent = c.parent /\ them.our_id = Peer /\ them.their_id = Author
      /\ them.label = c.label /\ them.our_sk = EncKeyId(Peer) /\ them.their_pk = EncKeyId(Author)
  BY DEF ChannelOf, Author, Peer
<1>3. KeysOf(Author, c) = BidiFromAuthorSecret(us, c.encap)
  BY DEF KeysOf, AuthorKeys
<1>4. KeysOf(Peer, c) = BidiFromPeerEncap(them, c.encap)
  BY DEF KeysOf, PeerKeys, Author, Peer
<1> HIDE DEF us, them
<1>5. SetupSend(us.our_sk, us.their_pk, AuthorInfo(us), c.encap) = BidiContext(c)
  BY <1>1 DEF SetupSend, AuthorInfo, BidiContext
<1>6. SetupRecv(them.their_pk, c.encap, them.our_sk, PeerInfo(them)) = BidiContext(c)
  BY <1>2 DEF SetupRecv, PeerInfo, BidiContext
<1> QED
  BY <1>3, <1>4, <1>5, <1>6, Zenon DEF BidiFromAuthorSecret, BidiFromPeerEncap

\* So do those of a unidirectional one, and the device that the command names
\* gets the key to seal (UniFromAuthorSecret, UniFromPeerEncap).
LEMMA UniKeys ==
  ASSUME NEW c, c.kind # "bidi", NEW d \in Devices
  PROVE  KeysOf(d, c) = IF d = Sealer(c) THEN [seal |-> RawKey(UniContext(c)), open |-> NoKey]
                        ELSE [seal |-> NoKey, open |-> RawKey(UniContext(c))]
<1> DEFINE sk == EncKeyId(d)
           ch == ChannelOf(c, d, sk)
<1>1. /\ ch.parent = c.parent /\ ch.our_id = d /\ ch.label = c.label
      /\ ch.our_sk = EncKeyId(d) /\ ch.their_pk = EncKeyId(Other(d))
      /\ ch.seal_id = Sealer(c) /\ ch.open_id = Other(Sealer(c))
  BY DEF ChannelOf, Sealer, Other
<1>2. CASE d = Author
  <2>1. KeysOf(d, c) = UniFromAuthorSecret(ch, c.encap)
    BY <1>2 DEF KeysOf, AuthorKeys
  <2> HIDE DEF ch
  <2>2. SetupSend(ch.our_sk, ch.their_pk, UniInfo(ch), c.encap) = UniContext(c)
    BY <1>1, <1>2 DEF SetupSend, UniInfo, UniContext, Author, Peer, Other
  <2> QED
    BY <1>1, <2>1, <2>2 DEF UniFromAuthorSecret, UniKey
<1>3. CASE d = Peer
  <2>1. KeysOf(d, c) = UniFromPeerEncap(ch, c.encap)
    BY <1>3 DEF KeysOf, PeerKeys, Author, Peer
  <2> HIDE DEF ch
  <2>2. SetupRecv(ch.their_pk, c.encap, ch.our_sk, UniInfo(ch)) = UniContext(c)
    BY <1>1, <1>3 DEF SetupRecv, UniInfo, UniContext, Author, Peer, Other
  <2> QED
    BY <1>1, <2>1, <2>2 DEF UniFromPeerEncap, UniKey
<1> QED
  BY <1>2, <1>3 DEF Devices

\* What one device seals with, the other opens with.
LEMMA KeysMatch ==
  ASSUME NEW c, NEW d \in Devices
  PROVE  KeysOf(Other(d), c).seal = KeysOf(d, c).open
<1>1. Other(d) \in Devices /\ Sealer(c) \in Devices
  BY DEF Other, Devices, Author, Peer, Sealer
<1>2. CASE c.kind = "bidi"
  BY <1>2, BidiKeys DEF Other, Devices, Author, Peer
<1>3. CASE c.kind # "bidi"
  <2>1. Other(d) = Sealer(c) <=> d # Sealer(c)
    BY <1>1 DEF Other, Devices, Author, Peer
  <2> QED
    BY <1>1, <1>3, <2>1, UniKeys
<1> QED
  BY <1>2, <1>3

\* The context of a command, and the forms that its keys have.
ContextOf(c) == IF c.kind = "bidi" THEN BidiContext(c) ELSE UniContext(c)

\* A key of the command is one that its context gives.
LEMMA KeyForms ==
  ASSUME NEW c, NEW d \in Devices
  PROVE  /\ KeysOf(d, c).seal \in {RawKey(ContextOf(c)), Export(ContextOf(c)), NoKey}
         /\ KeysOf(d, c).open \in {RawKey(ContextOf(c)), Export(ContextOf(c)), NoKey}
         /\ ContextOf(c).root = c.encap
<1>1. CASE c.kind = "bidi"
  BY <1>1, BidiKeys DEF ContextOf, BidiContext, Devices
<1>2. CASE c.kind # "bidi"
  BY <1>2, UniKeys DEF ContextOf, UniContext
<1> QED
  BY <1>1, <1>2

\* Nothing else opens it: not the keys of another command ...
LEMMA KeysOfOneCommand ==
  ASSUME NEW b, NEW c, NEW d \in Devices, NEW e \in Devices,
         KeysOf(e, b).seal = KeysOf(d, c).open, KeysOf(d, c).open # NoKey
  PROVE  b.encap = c.encap
<1> DEFINE x == ContextOf(b)
           y == ContextOf(c)
<1>1. x.root = b.encap /\ y.root = c.encap
  BY KeyForms
<1>2. KeysOf(e, b).seal \in {RawKey(x), Export(x), NoKey}
  BY KeyForms
<1>3. KeysOf(d, c).open \in {RawKey(y), Export(y), NoKey}
  BY KeyForms
<1> HIDE DEF x, y
<1>4. RawKey(x) # NoKey /\ Export(x) # NoKey /\ RawKey(x) # Export(y) /\ Export(x) # RawKey(y)
  BY DEF RawKey, Export, NoKey
<1>5. (RawKey(x) = RawKey(y) => x = y) /\ (Export(x) = Export(y) => x = y)
  BY DEF RawKey, Export
<1> QED
  BY <1>1, <1>2, <1>3, <1>4, <1>5

\* ... and not the sealing device itself.
LEMMA KeysOfTwoDevices ==
  ASSUME NEW c, NEW d \in Devices, NEW e \in Devices,
         KeysOf(e, c).seal = KeysOf(d, c).open, KeysOf(d, c).open # NoKey
  PROVE  e = Other(d)
<1>1. SUFFICES ASSUME e = d PROVE FALSE
  BY DEF Other, Devices, Author, Peer
<1>2. CASE c.kind = "bidi"
  <2>1. RawKey(BidiContext(c)) # Export(BidiContext(c))
    BY DEF RawKey, Export
  <2> QED
    BY <1>1, <1>2, <2>1, BidiKeys DEF Devices
<1>3. CASE c.kind # "bidi"
  BY <1>1, <1>3, UniKeys
<1> QED
  BY <1>2, <1>3

-----------------------------------------------------------------------------
(* The channels: what a thread knows of its command, what a device holds.  *)

\* The root keys of the channels that were asked for.
Roots == {root \in 1 .. asked : plan.asks[root].kind \in ChannelKinds}

CommandsInv ==
  /\ plan \in Plans
  /\ asked \in 0 .. Len(plan.asks)
  /\ commands \in Seq({CommandOf(root) : root \in Roots})
  /\ \A i, j \in DOMAIN commands : commands[i].encap = commands[j].encap => i = j

Creating == {"create: key", "create: insert"}
Handling == {"created: secret", "created: key", "received: key"}

\* A thread that is doing w and whose call of the store, if it made one, is for the
\* key `id'.
TaskSound(w, id, cmds, roots) ==
  /\ w \in [task : Creating \cup Handling \cup {"none", "app"}, command : Nat, root : Nat]
  /\ w.task \in Creating => /\ w.root \in roots
                            /\ \A i \in DOMAIN cmds : cmds[i].encap # w.root
  /\ w.task \in Handling => w.command \in DOMAIN cmds
  /\ w.task = "created: secret" => id = cmds[w.command].key_id
  /\ w.task = "created: key" => w.root = cmds[w.command].encap /\ id = EncKeyId(Author)
  /\ w.task = "received: key" => id = EncKeyId(Peer)

WorkInv ==
  /\ work = [t \in Callers |-> work[t]]
  /\ \A t \in Callers : TaskSound(work[t], calls[t].id, commands, Roots)
  /\ \A t, u \in Callers :
       work[t].task \in Creating /\ work[u].task \in Creating /\ work[t].root = work[u].root
       => t = u

ChanFields == {"seal", "open", "seq", "command"}

\* Channel ch, which device d holds as `id', has the keys of its command.
ChanSound(d, id, ch, cmds) ==
  /\ ch = [x \in ChanFields |-> ch[x]]
  /\ ch.command \in DOMAIN cmds
  /\ id = <<Other(d), cmds[ch.command].label>>
  /\ ch.seal = KeysOf(d, cmds[ch.command]).seal
  /\ ch.open = KeysOf(d, cmds[ch.command]).open

ChanInv ==
  /\ chans = [d \in Devices |-> chans[d]]
  /\ \A d \in Devices : /\ chans[d] = [id \in DOMAIN chans[d] |-> chans[d][id]]
                        /\ \A id \in DOMAIN chans[d] : ChanSound(d, id, chans[d][id], commands)

\* A message was sealed with the key of its command, and says so.
MessageSound(m, cmds) ==
  /\ m.command \in DOMAIN cmds
  /\ m.from \in Devices /\ m.to = Other(m.from)
  /\ m.key = KeysOf(m.from, cmds[m.command]).seal /\ m.key # NoKey
  /\ m.nonce = m.seq
  /\ m.label = cmds[m.command].label /\ m.ad = m.label

SentInv == \A m \in sent : MessageSound(m, commands)

AfcInv == CommandsInv /\ WorkInv /\ ChanInv /\ SentInv

\* The secret of a channel that was asked for has an identifier.
LEMMA RootFacts ==
  ASSUME CommandsInv, NEW root \in Roots
  PROVE  ChannelKeyId(root) \in Ids /\ root \in Nat
<1>1. /\ root \in 1 .. asked /\ asked \in 0 .. Len(plan.asks) /\ plan \in Plans
      /\ plan.asks[root].kind \in ChannelKinds
  BY DEF Roots, CommandsInv
<1>2. Len(plan.asks) \in Nat
  BY <1>1, ChannelsAssumption
<1>3. root \in 1 .. Len(plan.asks) /\ root \in Nat
  BY <1>1, <1>2
<1> QED
  BY <1>1, <1>3, ChannelsAssumption

\* What is known of a published command.
LEMMA CommandFacts ==
  ASSUME CommandsInv, NEW i \in DOMAIN commands
  PROVE  /\ commands[i].encap \in Roots
         /\ commands[i].key_id = ChannelKeyId(commands[i].encap)
         /\ ChannelKeyId(commands[i].encap) \in Ids
         /\ i \in Nat /\ commands[i].encap \in Nat
<1>1. commands[i] \in {CommandOf(root) : root \in Roots} /\ i \in Nat
  BY SeqFunction DEF CommandsInv
<1>2. PICK root \in Roots : commands[i] = CommandOf(root)
  BY <1>1
<1>3. /\ CommandOf(root).encap = root
      /\ CommandOf(root).key_id = ChannelKeyId(root)
  BY DEF CommandOf
<1> QED
  BY <1>1, <1>2, <1>3, RootFacts

\* What the invariant is for.
LEMMA OpensExactlyHolds ==
  ASSUME CommandsInv, ChanInv, SentInv
  PROVE  OpensExactly
<1> SUFFICES ASSUME NEW d \in Devices, NEW peer \in Devices, NEW m \in sent
             PROVE  Open(d, peer, m) = "Ok" <=>
                      /\ m.from = peer /\ m.to = d /\ d # peer
                      /\ <<peer, m.label>> \in DOMAIN chans[d]
                      /\ chans[d][<<peer, m.label>>].command = m.command
  BY DEF OpensExactly
<1> DEFINE id == <<peer, m.label>>
           ch == chans[d][id]
           b == commands[m.command]
           c == commands[ch.command]
<1>1. /\ m.command \in DOMAIN commands /\ m.from \in Devices /\ m.to = Other(m.from)
      /\ m.key = KeysOf(m.from, b).seal /\ m.key # NoKey
      /\ m.nonce = m.seq /\ m.ad = m.label
  BY DEF SentInv, MessageSound
<1>2. id \in DOMAIN chans[d] => /\ ch.command \in DOMAIN commands
                                /\ peer = Other(d)
                                /\ ch.open = KeysOf(d, c).open
  BY DEF ChanInv, ChanSound
<1>3. Open(d, peer, m) = "Ok" <=>
        id \in DOMAIN chans[d] /\ ch.open # NoKey /\ m.key = ch.open
  <2>1. id[2] = m.label
    OBVIOUS
  <2>2. Open(d, peer, m) = IF id \notin DOMAIN chans[d] THEN "NotFound"
                           ELSE IF ch.open = NoKey THEN "NotFound"
                           ELSE IF m.key = ch.open /\ m.nonce = m.seq /\ m.ad = id[2] THEN "Ok"
                           ELSE "Authentication"
    BY DEF Open
  <2> HIDE DEF id, ch
  <2> QED
    BY <1>1, <2>1, <2>2
<1>4. Other(d) # d /\ Other(Other(d)) = d
  BY DEF Other, Devices, Author, Peer
<1> HIDE DEF id, ch, b, c
<1>5. ASSUME id \in DOMAIN chans[d], ch.open # NoKey, m.key = ch.open
      PROVE  m.from = peer /\ m.to = d /\ d # peer /\ ch.command = m.command
  <2>1. b.encap = c.encap
    BY <1>1, <1>2, <1>5, KeysOfOneCommand, Zenon
  <2>2. ch.command = m.command
    BY <1>1, <1>2, <1>5, <2>1 DEF CommandsInv, b, c
  <2>3. m.from = Other(d)
    <3>1. b = c
      BY <2>2 DEF b, c
    <3>2. KeysOf(m.from, c).seal = KeysOf(d, c).open /\ KeysOf(d, c).open # NoKey
      BY <1>1, <1>2, <1>5, <3>1
    <3> QED
      BY <1>1, <3>2, KeysOfTwoDevices
  <2> QED
    BY <1>1, <1>2, <1>4, <1>5, <2>2, <2>3
<1>6. ASSUME m.from = peer, id \in DOMAIN chans[d], ch.command = m.command
      PROVE  ch.open # NoKey /\ m.key = ch.open
  <2>1. KeysOf(Other(d), c).seal = KeysOf(d, c).open
    BY KeysMatch
  <2> QED
    BY <1>1, <1>2, <1>6, <2>1 DEF b, c
<1> QED
  BY <1>3, <1>5, <1>6 DEF id, ch

-----------------------------------------------------------------------------

\* What a thread knows stays true as channels are asked for and commands published.
LEMMA TaskKept ==
  ASSUME NEW w, NEW id, NEW cmds, NEW roots, TaskSound(w, id, cmds, roots),
         NEW more, NEW wider, roots \subseteq wider, DOMAIN cmds \subseteq DOMAIN more,
         \A i \in DOMAIN cmds : more[i] = cmds[i],
         w.task \in Creating => \A i \in DOMAIN more : more[i].encap # w.root
  PROVE  TaskSound(w, id, more, wider)
<1>1. w.task \in Handling => w.command \in DOMAIN cmds /\ more[w.command] = cmds[w.command]
  BY DEF TaskSound
<1> QED
  BY <1>1 DEF TaskSound, Handling

\* A thread that does nothing knows nothing.
LEMMA NoWorkSound ==
  ASSUME NEW id, NEW cmds, NEW roots
  PROVE  TaskSound(NoWork, id, cmds, roots) /\ NoWork.task \notin Creating
  BY DEF TaskSound, NoWork, Creating, Handling

\* One thread does something else.
LEMMA WorkKeeps ==
  ASSUME WorkInv, NEW t \in Callers, NEW w, work' = [work EXCEPT ![t] = w],
         \A u \in Callers \ {t} : calls'[u].id = calls[u].id,
         TaskSound(w, calls'[t].id, commands', Roots'),
         \A u \in Callers \ {t} : TaskSound(work[u], calls[u].id, commands', Roots'),
         w.task \in Creating =>
            \/ work[t].task \in Creating /\ w.root = work[t].root
            \/ \A u \in Callers : work[u].task \in Creating => work[u].root # w.root
  PROVE  WorkInv'
<1>1. /\ work' = [u \in Callers |-> work'[u]] /\ work'[t] = w
      /\ \A u \in Callers \ {t} : work'[u] = work[u]
  BY DEF WorkInv
<1>2. \A u \in Callers : TaskSound(work'[u], calls'[u].id, commands', Roots')
  BY <1>1
<1>3. ASSUME NEW u \in Callers, NEW v \in Callers, work'[u].task \in Creating,
             work'[v].task \in Creating, work'[u].root = work'[v].root
      PROVE  u = v
  <2>1. CASE u # t /\ v # t
    BY <1>1, <1>3, <2>1 DEF WorkInv
  <2>2. CASE u = t /\ v # t
    BY <1>1, <1>3, <2>2 DEF WorkInv
  <2>3. CASE u # t /\ v = t
    BY <1>1, <1>3, <2>3 DEF WorkInv
  <2> QED
    BY <2>1, <2>2, <2>3, Zenon
<1> QED
  BY <1>1, <1>2, <1>3 DEF WorkInv

-----------------------------------------------------------------------------
(* Steps that publish nothing and change no channel.                       *)

QuietAfc == UNCHANGED <<plan, asked, commands, chans, sent>>

\* They keep what is known of commands, channels and messages.
LEMMA QuietKeeps ==
  ASSUME AfcInv, QuietAfc
  PROVE  CommandsInv' /\ ChanInv' /\ SentInv' /\ Roots' = Roots
<1>1. plan' = plan /\ asked' = asked /\ commands' = commands /\ chans' = chans /\ sent' = sent
  BY DEF QuietAfc
<1>2. Roots' = Roots /\ CommandsInv'
  BY <1>1 DEF AfcInv, CommandsInv, Roots, CommandOf
<1>3. ChanInv'
  BY <1>1 DEF AfcInv, ChanInv
<1>4. SentInv'
  BY <1>1 DEF AfcInv, SentInv
<1> QED
  BY <1>2, <1>3, <1>4

\* Only the store moves.
LEMMA StoreOnlyKeeps ==
  ASSUME AfcInv, UNCHANGED afcVars, SameIds
  PROVE  AfcInv'
<1>1. QuietAfc /\ work' = work /\ commands' = commands
  BY DEF afcVars, QuietAfc
<1>2. CommandsInv' /\ ChanInv' /\ SentInv' /\ Roots' = Roots
  BY <1>1, QuietKeeps
<1>3. WorkInv'
  BY <1>1, <1>2 DEF AfcInv, WorkInv, SameIds
<1> QED
  BY <1>2, <1>3 DEF AfcInv

\* A thread goes on to something else.
LEMMA QuietWork ==
  ASSUME AfcInv, QuietAfc, NEW t \in Callers, NEW w, work' = [work EXCEPT ![t] = w],
         \A u \in Callers \ {t} : calls'[u].id = calls[u].id,
         TaskSound(w, calls'[t].id, commands, Roots),
         w.task \in Creating => work[t].task \in Creating /\ w.root = work[t].root
  PROVE  AfcInv'
<1>1. CommandsInv' /\ ChanInv' /\ SentInv' /\ Roots' = Roots /\ commands' = commands
  BY QuietKeeps DEF QuietAfc
<1>2. \A u \in Callers \ {t} : TaskSound(work[u], calls[u].id, commands', Roots')
  BY <1>1 DEF AfcInv, WorkInv
<1>3. TaskSound(w, calls'[t].id, commands', Roots')
  BY <1>1
<1>4. WorkInv'
  BY <1>2, <1>3, WorkKeeps, Zenon DEF AfcInv
<1> QED
  BY <1>1, <1>4 DEF AfcInv

\* AppReturns, and every error.
LEMMA FinishKeeps ==
  ASSUME StoreInv, AfcInv, NEW t \in Callers, Finish(t), storeVars' = storeVars, QuietAfc
  PROVE  StoreInv' /\ AfcInv'
<1>1. dir' = dir /\ files' = files /\ calls' = calls
  BY DEF storeVars
<1>2. StoreInv'
  BY <1>1 DEF StoreInv, Named
<1>3. work' = [work EXCEPT ![t] = NoWork]
  BY DEF Finish
<1>4. TaskSound(NoWork, calls'[t].id, commands, Roots) /\ NoWork.task \notin Creating
  BY NoWorkSound
<1>5. AfcInv'
  BY <1>1, <1>3, <1>4, QuietWork, Zenon
<1> QED
  BY <1>2, <1>5

\* Both are of this form.
LEMMA FailsKeeps ==
  ASSUME StoreInv, AfcInv, NEW t \in Callers, Fails(t) \/ AppReturns(t)
  PROVE  StoreInv' /\ AfcInv'
<1>1. Finish(t) /\ storeVars' = storeVars /\ QuietAfc
  BY DEF Fails, AppReturns, storeVars, QuietAfc
<1> QED
  BY <1>1, FinishKeeps

\* A thread begins a call of the store, as part of what it does next.
LEMMA BeginKeeps ==
  ASSUME StoreInv, AfcInv, QuietAfc, QuietStore, NEW t \in Callers,
         NEW op, NEW id \in Ids, NEW val, Invoke(t, op, id, val), op = "insert" => val = id,
         NEW w, work' = [work EXCEPT ![t] = w], TaskSound(w, id, commands, Roots),
         w.task \in Creating => work[t].task \in Creating /\ w.root = work[t].root
  PROVE  StoreInv' /\ AfcInv'
<1>1. StoreInv' /\ calls'[t].id = id /\ \A u \in Callers \ {t} : calls'[u].id = calls[u].id
  BY InvokeSound, Zenon DEF QuietStore
<1>2. AfcInv'
  BY <1>1, QuietWork
<1> QED
  BY <1>1, <1>2

\* What a thread's call of the store has returned.
LEMMA GotKeyFacts ==
  ASSUME StoreInv, NEW t \in Callers, GotKey(t)
  PROVE  calls[t].result[2] = calls[t].id
  BY CallFacts, ZenonT(30) DEF GotKey, CallSound

\* The encryption keys have identifiers.
LEMMA EncKeyIds == \A d \in Devices : EncKeyId(d) \in Ids
  BY ChannelsAssumption DEF Devices

\* The author's secret goes into the store under the identifier of its root key.
LEMMA CreateSecretsKeeps ==
  ASSUME StoreInv, AfcInv, NEW t \in Callers, CreateSecrets(t)
  PROVE  StoreInv' /\ AfcInv'
<1>1. CASE ~GotKey(t) /\ Fails(t)
  BY <1>1, FailsKeeps
<1>2. CASE ~(~GotKey(t) /\ Fails(t))
  <2> DEFINE root == work[t].root
             id == ChannelKeyId(root)
             w == [work[t] EXCEPT !.task = "create: insert"]
  <2>1. /\ work[t].task = "create: key" /\ GoOnWith(t, "create: insert")
        /\ Invoke(t, "insert", id, id) /\ QuietStore /\ QuietAfc
    BY <1>2, Zenon DEF CreateSecrets, Returned, QuietAfc
  <2>2. TaskSound(work[t], calls[t].id, commands, Roots) /\ CommandsInv
    BY DEF AfcInv, WorkInv
  <2>3. /\ work[t] \in [task : Creating \cup Handling \cup {"none", "app"}, command : Nat, root : Nat]
        /\ work[t].task \in Creating /\ root \in Roots
        /\ \A i \in DOMAIN commands : commands[i].encap # root
    BY <2>1, <2>2, Zenon DEF TaskSound, Creating
  <2>4. id \in Ids
    BY <2>2, <2>3, RootFacts
  <2>5. work' = [work EXCEPT ![t] = w]
    BY <2>1 DEF GoOnWith
  <2>6. /\ w \in [task : Creating \cup Handling \cup {"none", "app"}, command : Nat, root : Nat]
        /\ w.task = "create: insert" /\ w.root = root
    BY <2>3 DEF Creating
  <2> HIDE DEF w, root, id
  <2>7. TaskSound(w, id, commands, Roots)
    BY <2>3, <2>6 DEF TaskSound, Handling
  <2>8. work[t].root = root
    BY DEF root
  <2> QED
    BY <2>1, <2>3, <2>4, <2>5, <2>6, <2>7, <2>8, BeginKeeps, Zenon
<1> QED
  BY <1>1, <1>2

\* The author's handler asks for the secret that the command names.
LEMMA ChannelCreatedKeeps ==
  ASSUME StoreInv, AfcInv, NEW t \in Callers, NEW c \in DOMAIN commands, ChannelCreated(t, c)
  PROVE  StoreInv' /\ AfcInv'
<1> DEFINE w == [task |-> "created: secret", command |-> c, root |-> 0]
           id == commands[c].key_id
<1>1. /\ work' = [work EXCEPT ![t] = w] /\ Invoke(t, "remove", id, Absent)
      /\ QuietStore /\ QuietAfc
  BY Zenon DEF ChannelCreated, Start, QuietAfc
<1>2. id \in Ids /\ c \in Nat
  BY CommandFacts DEF AfcInv
<1>3. TaskSound(w, id, commands, Roots) /\ w.task \notin Creating
  BY <1>2, Zenon DEF TaskSound, Creating, Handling
<1> HIDE DEF w, id
<1> QED
  BY <1>1, <1>2, <1>3, BeginKeeps

\* The peer's handler asks for its encryption key.
LEMMA ChannelReceivedKeeps ==
  ASSUME StoreInv, AfcInv, NEW t \in Callers, NEW c \in DOMAIN commands, ChannelReceived(t, c)
  PROVE  StoreInv' /\ AfcInv'
<1> DEFINE w == [task |-> "received: key", command |-> c, root |-> 0]
           id == EncKeyId(Peer)
<1>1. /\ work' = [work EXCEPT ![t] = w] /\ Invoke(t, "get", id, Absent)
      /\ QuietStore /\ QuietAfc
  BY Zenon DEF ChannelReceived, Start, QuietAfc
<1>2. id \in Ids /\ c \in Nat
  BY CommandFacts, EncKeyIds DEF AfcInv, Devices
<1>3. TaskSound(w, id, commands, Roots) /\ w.task \notin Creating
  BY <1>2, Zenon DEF TaskSound, Creating, Handling
<1> HIDE DEF w, id
<1> QED
  BY <1>1, <1>2, <1>3, BeginKeeps

\* The secret that the store returns is that of the command.
LEMMA CreatedSecretKeeps ==
  ASSUME StoreInv, AfcInv, NEW t \in Callers, CreatedSecret(t)
  PROVE  StoreInv' /\ AfcInv'
<1>1. CASE ~GotKey(t) /\ Fails(t)
  BY <1>1, FailsKeeps
<1>2. CASE ~(~GotKey(t) /\ Fails(t))
  <2> DEFINE c == work[t].command
             root == calls[t].result[2][2]
             w == [task |-> "created: key", command |-> c, root |-> root]
             id == EncKeyId(Author)
  <2>1. /\ work[t].task = "created: secret" /\ GotKey(t)
        /\ work' = [work EXCEPT ![t] = w] /\ Invoke(t, "get", id, Absent)
        /\ QuietStore /\ QuietAfc
    BY <1>2, Zenon DEF CreatedSecret, Returned, Start, QuietAfc
  <2>2. TaskSound(work[t], calls[t].id, commands, Roots) /\ CommandsInv
    BY DEF AfcInv, WorkInv
  <2>3. c \in DOMAIN commands /\ calls[t].id = commands[c].key_id
    BY <2>1, <2>2, Zenon DEF TaskSound, Handling
  <2>4. /\ commands[c].key_id = ChannelKeyId(commands[c].encap)
        /\ c \in Nat /\ commands[c].encap \in Nat
    BY <2>2, <2>3, CommandFacts, Zenon
  <2>5. root = commands[c].encap
    <3>1. calls[t].result[2] = ChannelKeyId(commands[c].encap)
      BY <2>1, <2>3, <2>4, GotKeyFacts, Zenon
    <3>2. ChannelKeyId(commands[c].encap)[2] = commands[c].encap
      BY DEF ChannelKeyId
    <3> QED
      BY <3>1, <3>2
  <2> HIDE DEF root, c, id
  <2>6. TaskSound(w, id, commands, Roots) /\ w.task \notin Creating
    BY <2>3, <2>4, <2>5 DEF TaskSound, Creating, Handling, id
  <2>7. id \in Ids
    BY EncKeyIds DEF id, Devices
  <2> HIDE DEF w
  <2> QED
    BY <2>1, <2>6, <2>7, BeginKeeps
<1> QED
  BY <1>1, <1>2

-----------------------------------------------------------------------------
(* Steps that ask for a channel and publish it.                            *)

\* A sequence whose elements are in T.
LEMMA SequenceInto ==
  ASSUME NEW S, NEW T, NEW s \in Seq(S), \A i \in 1 .. Len(s) : s[i] \in T
  PROVE  s \in Seq(T)
<1>1. s \in [1 .. Len(s) -> T] /\ Len(s) \in Nat
  BY SeqFunction
<1> QED
  BY <1>1

\* One more is asked for.
LEMMA AskKeeps ==
  ASSUME AfcInv, asked < Len(plan.asks), asked' = asked + 1,
         UNCHANGED <<plan, commands, chans, sent>>
  PROVE  /\ CommandsInv' /\ ChanInv' /\ SentInv'
         /\ Roots \subseteq Roots' /\ asked + 1 \in Nat /\ asked + 1 \notin Roots
         /\ plan.asks[asked + 1].kind \in ChannelKinds => asked + 1 \in Roots'
<1>1. plan' = plan /\ commands' = commands /\ chans' = chans /\ sent' = sent
  OBVIOUS
<1>2. asked \in 0 .. Len(plan.asks) /\ plan \in Plans
  BY DEF AfcInv, CommandsInv
<1>3. Len(plan.asks) \in Nat
  BY <1>2, ChannelsAssumption
<1>4. asked \in Nat /\ asked' \in 0 .. Len(plan.asks) /\ asked' \in Nat
  BY <1>2, <1>3
<1>5. /\ Roots \subseteq Roots' /\ asked + 1 \notin Roots
      /\ plan.asks[asked + 1].kind \in ChannelKinds => asked + 1 \in Roots'
  BY <1>1, <1>4 DEF Roots
<1>6. CommandsInv'
  <2>1. \A i \in 1 .. Len(commands) : commands[i] \in {CommandOf(root) : root \in Roots}
    BY SeqFunction DEF AfcInv, CommandsInv
  <2>2. \A root \in Roots : CommandOf(root)' = CommandOf(root)
    BY <1>1 DEF CommandOf
  <2>3. \A i \in 1 .. Len(commands) : commands[i] \in {CommandOf(root)' : root \in Roots'}
    BY <1>5, <2>1, <2>2
  <2>4. commands \in Seq({CommandOf(root)' : root \in Roots'})
    BY <2>3, SequenceInto DEF AfcInv, CommandsInv
  <2> QED
    BY <1>1, <1>2, <1>4, <2>4, Zenon DEF AfcInv, CommandsInv
<1>7. ChanInv'
  BY <1>1 DEF AfcInv, ChanInv
<1>8. SentInv'
  BY <1>1, Zenon DEF AfcInv, SentInv
<1> QED
  BY <1>4, <1>5, <1>6, <1>7, <1>8

\* A thread asks for one more and begins a call of the store for it.
LEMMA AskBeginKeeps ==
  ASSUME StoreInv, AfcInv, QuietStore, NEW t \in Callers,
         asked < Len(plan.asks), asked' = asked + 1,
         UNCHANGED <<plan, commands, chans, sent>>,
         NEW op, NEW id \in Ids, NEW val, Invoke(t, op, id, val), op = "insert" => val = id,
         NEW w, work' = [work EXCEPT ![t] = w], TaskSound(w, id, commands, Roots'),
         w.task \in Creating => w.root = asked + 1
  PROVE  StoreInv' /\ AfcInv'
<1>1. StoreInv' /\ calls'[t].id = id /\ \A u \in Callers \ {t} : calls'[u].id = calls[u].id
  BY InvokeSound, ZenonT(30) DEF QuietStore
<1>2. /\ CommandsInv' /\ ChanInv' /\ SentInv'
      /\ Roots \subseteq Roots' /\ asked + 1 \notin Roots
  BY AskKeeps
<1>3. commands' = commands
  OBVIOUS
<1>4. \A u \in Callers : TaskSound(work[u], calls[u].id, commands, Roots)
  BY Zenon DEF AfcInv, WorkInv
<1>5. \A u \in Callers \ {t} : TaskSound(work[u], calls[u].id, commands', Roots')
  <2> SUFFICES ASSUME NEW u \in Callers
               PROVE  TaskSound(work[u], calls[u].id, commands, Roots')
    BY <1>3, SMTT(30)
  <2>1. work[u].task \in Creating => \A i \in DOMAIN commands : commands[i].encap # work[u].root
    BY <1>4, Zenon DEF TaskSound
  <2> QED
    BY <1>2, <1>4, <2>1, TaskKept, Zenon
<1>6. w.task \in Creating =>
        \A u \in Callers : work[u].task \in Creating => work[u].root # w.root
  <2>1. \A u \in Callers : work[u].task \in Creating => work[u].root \in Roots
    BY <1>4, Zenon DEF TaskSound
  <2> QED
    BY <1>2, <2>1, SMTT(30)
<1>7. TaskSound(w, calls'[t].id, commands', Roots')
  BY <1>1, <1>3, Zenon
<1>8. WorkInv'
  BY <1>1, <1>5, <1>6, <1>7, WorkKeeps, Zenon DEF AfcInv
<1> QED
  BY <1>1, <1>2, <1>8, SMTT(30) DEF AfcInv

\* The application's own calls stand for no channel.
LEMMA AppCallsKeeps ==
  ASSUME StoreInv, AfcInv, NEW t \in Callers, AppCalls(t)
  PROVE  StoreInv' /\ AfcInv'
<1> DEFINE op == plan.asks[asked + 1].kind
           val == IF op = "insert" THEN AppKeyId ELSE Absent
           w == [task |-> "app", command |-> 0, root |-> 0]
<1>1. /\ asked < Len(plan.asks) /\ asked' = asked + 1
      /\ work' = [work EXCEPT ![t] = w]
      /\ Invoke(t, op, AppKeyId, val) /\ QuietStore
      /\ UNCHANGED <<plan, commands, chans, sent>>
  BY DEF AppCalls, Asks, Start
<1>2. AppKeyId \in Ids /\ (op = "insert" => val = AppKeyId)
  BY ChannelsAssumption
<1>3. TaskSound(w, AppKeyId, commands, Roots') /\ w.task \notin Creating
  BY ZenonT(60) DEF TaskSound, Creating, Handling
<1> HIDE DEF op, val, w
<1> QED
  BY <1>1, <1>2, <1>3, AskBeginKeeps, ZenonT(60)

\* The root key of a new channel is that of no command and of no other thread.
LEMMA CreateChannelKeeps ==
  ASSUME StoreInv, AfcInv, NEW t \in Callers, CreateChannel(t)
  PROVE  StoreInv' /\ AfcInv'
<1> DEFINE root == asked + 1
           w == [task |-> "create: key", command |-> 0, root |-> root]
           id == EncKeyId(Author)
<1>1. /\ asked < Len(plan.asks) /\ asked' = asked + 1 /\ plan.asks[root].kind \in ChannelKinds
      /\ work' = [work EXCEPT ![t] = w]
      /\ Invoke(t, "get", id, Absent) /\ QuietStore
      /\ UNCHANGED <<plan, commands, chans, sent>>
  BY Zenon DEF CreateChannel, Asks, Start
<1>2. id \in Ids
  BY EncKeyIds DEF Devices
<1>3. root \in Nat /\ root \notin Roots /\ root \in Roots'
  BY <1>1, AskKeeps, Zenon
<1>4. root = asked + 1
  OBVIOUS
<1> HIDE DEF root, id
<1>5. \A i \in DOMAIN commands : commands[i].encap # root
  BY <1>3, CommandFacts, Zenon DEF AfcInv
<1>6. TaskSound(w, id, commands, Roots') /\ w.root = root
  BY <1>3, <1>5 DEF TaskSound, Creating, Handling
<1> HIDE DEF w
<1> QED
  BY <1>1, <1>2, <1>4, <1>6, AskBeginKeeps

\* The new command is that of no other thread and of no earlier command.
LEMMA CreateReturnsKeeps ==
  ASSUME StoreInv, AfcInv, NEW t \in Callers, CreateReturns(t)
  PROVE  StoreInv' /\ AfcInv'
<1>1. CASE calls[t].result # <<"ok">> /\ Fails(t)
  BY <1>1, FailsKeeps
<1>2. CASE ~(calls[t].result # <<"ok">> /\ Fails(t))
  <2> DEFINE root == work[t].root
             c == CommandOf(root)
             n == Len(commands)
             S == {CommandOf(r) : r \in Roots}
  <2>1. /\ work[t].task = "create: insert" /\ commands' = Append(commands, c)
        /\ Finish(t) /\ UNCHANGED <<storeVars, plan, asked, chans, sent>>
    BY <1>2, ZenonT(60) DEF CreateReturns, Returned
  <2>2. /\ dir' = dir /\ files' = files /\ calls' = calls /\ plan' = plan /\ asked' = asked
        /\ chans' = chans /\ sent' = sent
    BY <2>1 DEF storeVars
  <2>3. StoreInv'
    BY <2>2, SMTT(30) DEF StoreInv, Named
  <2>4. \A u \in Callers : TaskSound(work[u], calls[u].id, commands, Roots)
    BY DEF AfcInv, WorkInv
  <2>5. /\ work[t].task \in Creating /\ root \in Roots
        /\ \A i \in DOMAIN commands : commands[i].encap # root
    BY <2>1, <2>4, ZenonT(30) DEF TaskSound, Creating
  <2>6. c.encap = root
    BY Zenon DEF CommandOf
  <2>7. commands \in Seq(S) /\ c \in S
    BY <2>5 DEF AfcInv, CommandsInv
  <2> HIDE DEF c, S
  <2>8. /\ commands' \in Seq(S)
        /\ n \in Nat /\ DOMAIN commands = 1 .. n /\ DOMAIN commands' = 1 .. n + 1
        /\ commands'[n + 1] = c
        /\ \A i \in 1 .. n : commands'[i] = commands[i]
    <3>1. Len(commands) \in Nat /\ DOMAIN commands = 1 .. Len(commands)
      BY <2>7, SeqFunction
    <3>2. /\ commands' \in Seq(S) /\ Len(commands') = Len(commands) + 1
          /\ commands'[Len(commands) + 1] = c
          /\ \A i \in 1 .. Len(commands) : commands'[i] = commands[i]
      <4>1. commands' = Append(commands, c)
        BY <2>1
      <4> HIDE DEF n, root
      <4> QED
        BY <2>7, <4>1, SeqAppend
    <3>3. DOMAIN commands' = 1 .. Len(commands')
      BY <3>2, SeqFunction
    <3> QED
      BY <3>1, <3>2, <3>3
  <2> HIDE DEF n, root
  <2>9. Roots' = Roots /\ {CommandOf(r)' : r \in Roots'} = S
    BY <2>2, Zenon DEF Roots, CommandOf, S
  <2>10. CommandsInv'
    <3>1. ASSUME NEW i \in 1 .. n + 1, NEW j \in 1 .. n + 1,
                 commands'[i].encap = commands'[j].encap
          PROVE  i = j
      <4>1. CASE i \in 1 .. n /\ j \in 1 .. n
        BY <2>8, <3>1, <4>1, Zenon DEF AfcInv, CommandsInv
      <4>2. CASE i = n + 1 /\ j \in 1 .. n
        BY <2>5, <2>6, <2>8, <3>1, <4>2, Zenon
      <4>3. CASE i \in 1 .. n /\ j = n + 1
        BY <2>5, <2>6, <2>8, <3>1, <4>3, Zenon
      <4> QED
        BY <2>8, <4>1, <4>2, <4>3, SMTT(30)
    <3> QED
      BY <2>2, <2>8, <2>9, <3>1, Zenon DEF AfcInv, CommandsInv
  <2>11. DOMAIN commands \subseteq DOMAIN commands' /\ \A i \in DOMAIN commands : commands'[i] = commands[i]
    BY <2>8, SMTT(30)
  <2>12. ChanInv'
    BY <2>2, <2>11, SMTT(30) DEF AfcInv, ChanInv, ChanSound
  <2>13. SentInv'
    BY <2>2, <2>11, Zenon DEF AfcInv, SentInv, MessageSound
  <2>14. ASSUME NEW u \in Callers \ {t} PROVE TaskSound(work[u], calls[u].id, commands', Roots')
    <3>1. TaskSound(work[u], calls[u].id, commands, Roots)
      BY <2>4, Zenon
    <3>2. ASSUME work[u].task \in Creating, NEW i \in DOMAIN commands'
          PROVE  commands'[i].encap # work[u].root
      <4>1. CASE i \in 1 .. n
        BY <2>8, <3>1, <3>2, <4>1, ZenonT(30) DEF TaskSound
      <4>2. CASE i = n + 1
        BY <2>5, <2>6, <2>8, <3>2, <4>2, Zenon DEF AfcInv, WorkInv, root
      <4> QED
        BY <2>8, <4>1, <4>2, SMTT(30)
    <3> QED
      BY <2>9, <2>11, <3>1, <3>2, TaskKept, Zenon
  <2>15. WorkInv'
    <3>1. TaskSound(NoWork, calls'[t].id, commands', Roots') /\ NoWork.task \notin Creating
      BY NoWorkSound, Zenon
    <3>2. work' = [work EXCEPT ![t] = NoWork]
      BY <2>1 DEF Finish
    <3> QED
      BY <2>2, <2>14, <3>1, <3>2, WorkKeeps, Zenon DEF AfcInv
  <2> QED
    BY <2>3, <2>10, <2>12, <2>13, <2>15, SMTT(30) DEF AfcInv
<1> QED
  BY <1>1, <1>2

-----------------------------------------------------------------------------
(* Steps that change the channels of a device, and the messages.           *)

\* The channels of device d become `more', all of them sound.
LEMMA ChansKeep ==
  ASSUME AfcInv, NEW d \in Devices, NEW more, chans' = [chans EXCEPT ![d] = more],
         commands' = commands,
         more = [id \in DOMAIN more |-> more[id]],
         \A id \in DOMAIN more : ChanSound(d, id, more[id], commands)
  PROVE  ChanInv'
<1>1. /\ chans' = [e \in Devices |-> chans'[e]] /\ chans'[d] = more
      /\ \A e \in Devices \ {d} : chans'[e] = chans[e]
  BY Zenon DEF AfcInv, ChanInv
<1>2. ASSUME NEW e \in Devices
      PROVE  /\ chans'[e] = [id \in DOMAIN chans'[e] |-> chans'[e][id]]
             /\ \A id \in DOMAIN chans'[e] : ChanSound(e, id, chans'[e][id], commands')
  <2>1. CASE e = d
    BY <1>1, <2>1, Zenon
  <2>2. CASE e # d
    BY <1>1, <2>2, Zenon DEF AfcInv, ChanInv
  <2> QED
    BY <2>1, <2>2, Zenon
<1> QED
  BY <1>1, <1>2, Zenon DEF ChanInv

\* A thread adds a channel with the keys of its command.
LEMMA AddKeeps ==
  ASSUME StoreInv, AfcInv, NEW t \in Callers, NEW d \in Devices, NEW c \in DOMAIN commands,
         NEW keys, keys = KeysOf(d, commands[c]),
         Add(d, <<Other(d), commands[c].label>>, keys, c),
         Finish(t), UNCHANGED <<storeVars, plan, asked, commands, sent>>
  PROVE  StoreInv' /\ AfcInv'
<1> DEFINE id == <<Other(d), commands[c].label>>
           ch == [seal |-> keys.seal, open |-> keys.open, seq |-> 0, command |-> c]
           old == chans[d]
           more == [i \in DOMAIN old \cup {id} |-> IF i = id THEN ch ELSE old[i]]
<1>1. /\ dir' = dir /\ files' = files /\ calls' = calls /\ plan' = plan /\ asked' = asked
      /\ commands' = commands /\ sent' = sent
  BY Zenon DEF storeVars
<1>2. StoreInv'
  BY <1>1 DEF StoreInv, Named
<1>3. CommandsInv' /\ SentInv' /\ Roots' = Roots
  <2>1. Roots' = Roots /\ CommandsInv'
    BY <1>1, Zenon DEF AfcInv, CommandsInv, Roots, CommandOf
  <2>2. SentInv'
    BY <1>1, Zenon DEF AfcInv, SentInv
  <2> QED
    BY <2>1, <2>2, Zenon
<1>4. chans' = [chans EXCEPT ![d] = more]
  BY Zenon DEF Add
<1>5. ch = [x \in ChanFields |-> ch[x]]
  BY Zenon DEF ChanFields
<1>6. ch.seal = keys.seal /\ ch.open = keys.open /\ ch.command = c
  OBVIOUS
<1> HIDE DEF ch
<1>7. ChanSound(d, id, ch, commands)
  BY <1>5, <1>6, Zenon DEF ChanSound
<1>8. \A i \in DOMAIN old : ChanSound(d, i, old[i], commands)
  BY Zenon DEF AfcInv, ChanInv
<1> HIDE DEF id, old
<1>9. /\ more = [i \in DOMAIN more |-> more[i]]
      /\ \A i \in DOMAIN more : ChanSound(d, i, more[i], commands)
  BY <1>7, <1>8
<1> HIDE DEF more
<1>10. ChanInv'
  BY <1>1, <1>4, <1>9, ChansKeep, ZenonT(30)
<1>11. WorkInv'
  <2>1. TaskSound(NoWork, calls'[t].id, commands', Roots') /\ NoWork.task \notin Creating
    BY NoWorkSound, Zenon
  <2>2. \A u \in Callers \ {t} : TaskSound(work[u], calls[u].id, commands', Roots')
    BY <1>1, <1>3 DEF AfcInv, WorkInv
  <2>3. work' = [work EXCEPT ![t] = NoWork]
    BY SMTT(30) DEF Finish
  <2> QED
    BY <1>1, <2>1, <2>2, <2>3, WorkKeeps, Zenon DEF AfcInv
<1> QED
  BY <1>2, <1>3, <1>10, <1>11, Zenon DEF AfcInv

\* The author's keys are those of the command.
LEMMA CreatedKeysKeeps ==
  ASSUME StoreInv, AfcInv, NEW t \in Callers, CreatedKeys(t)
  PROVE  StoreInv' /\ AfcInv'
<1>1. CASE ~GotKey(t) /\ Fails(t)
  BY <1>1, FailsKeeps
<1>2. CASE ~(~GotKey(t) /\ Fails(t))
  <2> DEFINE c == work[t].command
             keys == AuthorKeys(commands[c], calls[t].result[2], work[t].root)
  <2>1. /\ work[t].task = "created: key" /\ GotKey(t)
        /\ Add(Author, <<Peer, commands[c].label>>, keys, c)
        /\ Finish(t) /\ UNCHANGED <<storeVars, plan, asked, commands, sent>>
    BY <1>2, Zenon DEF CreatedKeys, Returned
  <2>2. TaskSound(work[t], calls[t].id, commands, Roots)
    BY SMTT(30) DEF AfcInv, WorkInv
  <2>3. /\ c \in DOMAIN commands
        /\ work[t].root = commands[c].encap /\ calls[t].id = EncKeyId(Author)
    BY <2>1, <2>2, ZenonT(30) DEF TaskSound, Handling
  <2>4. calls[t].result[2] = EncKeyId(Author)
    BY <2>1, <2>3, GotKeyFacts, ZenonT(30)
  <2>5. keys = KeysOf(Author, commands[c])
    BY <2>3, <2>4, Zenon DEF KeysOf
  <2>6. Author \in Devices /\ Other(Author) = Peer
    BY SMTT(30) DEF Devices, Other, Author, Peer
  <2> HIDE DEF keys, c
  <2> QED
    BY <2>1, <2>3, <2>5, <2>6, AddKeeps, ZenonT(30)
<1> QED
  BY <1>1, <1>2

\* So are the peer's.
LEMMA ReceivedKeysKeeps ==
  ASSUME StoreInv, AfcInv, NEW t \in Callers, ReceivedKeys(t)
  PROVE  StoreInv' /\ AfcInv'
<1>1. CASE ~GotKey(t) /\ Fails(t)
  BY <1>1, FailsKeeps
<1>2. CASE ~(~GotKey(t) /\ Fails(t))
  <2> DEFINE c == work[t].command
             keys == PeerKeys(commands[c], calls[t].result[2])
  <2>1. /\ work[t].task = "received: key" /\ GotKey(t)
        /\ Add(Peer, <<Author, commands[c].label>>, keys, c)
        /\ Finish(t) /\ UNCHANGED <<storeVars, plan, asked, commands, sent>>
    BY <1>2, ZenonT(30) DEF ReceivedKeys, Returned
  <2>2. TaskSound(work[t], calls[t].id, commands, Roots)
    BY DEF AfcInv, WorkInv
  <2>3. c \in DOMAIN commands /\ calls[t].id = EncKeyId(Peer)
    BY <2>1, <2>2, ZenonT(30) DEF TaskSound, Handling
  <2>4. calls[t].result[2] = EncKeyId(Peer)
    BY <2>1, <2>3, GotKeyFacts, ZenonT(30)
  <2>5. keys = KeysOf(Peer, commands[c])
    BY <2>4 DEF KeysOf, Author, Peer
  <2>6. Peer \in Devices /\ Other(Peer) = Author
    BY DEF Devices, Other, Author, Peer
  <2> HIDE DEF keys, c
  <2> QED
    BY <2>1, <2>3, <2>5, <2>6, AddKeeps, ZenonT(30)
<1> QED
  BY <1>1, <1>2

\* Nothing changes but channels and messages.
LEMMA ThreadsRest ==
  ASSUME StoreInv, AfcInv, UNCHANGED <<storeVars, plan, asked, work, commands>>
  PROVE  StoreInv' /\ CommandsInv' /\ WorkInv'
<1>1. /\ dir' = dir /\ files' = files /\ calls' = calls /\ plan' = plan /\ asked' = asked
      /\ commands' = commands /\ work' = work
  BY Zenon DEF storeVars
<1>2. StoreInv'
  BY <1>1 DEF StoreInv, Named
<1>3. Roots' = Roots /\ CommandsInv'
  BY <1>1, Zenon DEF AfcInv, CommandsInv, Roots, CommandOf
<1>4. WorkInv'
  BY <1>1, <1>3, Zenon DEF AfcInv, WorkInv
<1> QED
  BY <1>2, <1>3, <1>4, Zenon

\* seal uses the key of the channel, and the channel keeps it.
LEMMA SealKeeps ==
  ASSUME StoreInv, AfcInv, NEW d \in Devices, NEW id \in DOMAIN chans[d], Seal(d, id)
  PROVE  StoreInv' /\ AfcInv'
<1> DEFINE ch == chans[d][id]
           next == [ch EXCEPT !.seq = @ + 1]
           more == [chans[d] EXCEPT ![id] = next]
           m == [n |-> Cardinality(sent) + 1, from |-> d, to |-> id[1],
                 key |-> ch.seal, nonce |-> ch.seq, ad |-> id[2],
                 label |-> id[2], seq |-> ch.seq, command |-> ch.command]
<1>1. /\ ch.seal # NoKey /\ sent' = sent \cup {m}
      /\ UNCHANGED <<storeVars, plan, asked, work, commands>>
  BY SMTT(30) DEF Seal
<1>2. StoreInv' /\ CommandsInv' /\ WorkInv' /\ commands' = commands
  BY <1>1, ThreadsRest, Zenon
<1>3. ChanSound(d, id, ch, commands)
  BY Zenon DEF AfcInv, ChanInv
<1>4. MessageSound(m, commands)
  <2>1. /\ m.from = d /\ m.to = id[1] /\ m.key = ch.seal /\ m.nonce = m.seq
        /\ m.ad = id[2] /\ m.label = id[2] /\ m.command = ch.command
    BY ZenonT(30)
  <2>2. id = <<Other(d), commands[ch.command].label>>
    BY <1>3, ZenonT(30) DEF ChanSound
  <2>3. id[1] = Other(d) /\ id[2] = commands[ch.command].label
    BY <2>2
  <2> HIDE DEF m, ch
  <2> QED
    BY <1>1, <1>3, <2>1, <2>3, Zenon DEF ChanSound, MessageSound
<1>5. SentInv'
  <2> HIDE DEF m
  <2> QED
    BY <1>1, <1>2, <1>4, Zenon DEF AfcInv, SentInv
<1>6. ChanSound(d, id, next, commands)
  <2>1. ch = [x \in ChanFields |-> ch[x]]
    BY <1>3, Zenon DEF ChanSound
  <2>2. /\ "seq" \in ChanFields /\ "seal" \in ChanFields \ {"seq"}
        /\ "open" \in ChanFields \ {"seq"} /\ "command" \in ChanFields \ {"seq"}
    BY DEF ChanFields
  <2> HIDE DEF ch
  <2>3. next = [x \in ChanFields |-> next[x]] /\ \A x \in ChanFields \ {"seq"} : next[x] = ch[x]
    BY <2>1, <2>2
  <2> HIDE DEF next
  <2>4. next.seal = ch.seal /\ next.open = ch.open /\ next.command = ch.command
    BY <2>2, <2>3
  <2> QED
    BY <1>3, <2>3, <2>4, SMTT(30) DEF ChanSound
<1>7. chans' = [chans EXCEPT ![d] = more]
  BY DEF Seal
<1>8. /\ chans[d] = [i \in DOMAIN chans[d] |-> chans[d][i]]
      /\ \A i \in DOMAIN chans[d] : ChanSound(d, i, chans[d][i], commands)
  BY Zenon DEF AfcInv, ChanInv
<1> HIDE DEF next
<1>9. /\ more = [i \in DOMAIN more |-> more[i]]
      /\ \A i \in DOMAIN more : ChanSound(d, i, more[i], commands)
  BY <1>6, <1>8, Zenon
<1> HIDE DEF more
<1>10. ChanInv'
  BY <1>2, <1>7, <1>9, ChansKeep, Zenon
<1> QED
  BY <1>2, <1>5, <1>10, Zenon DEF AfcInv

\* The channels that are not removed stay as they are.
LEMMA RemoveChannelsKeeps ==
  ASSUME StoreInv, AfcInv, NEW d \in Devices, RemoveChannels(d)
  PROVE  StoreInv' /\ AfcInv'
<1>1. PICK ids : RemoveIf(d, ids)
  BY DEF RemoveChannels
<1> DEFINE more == [i \in DOMAIN chans[d] \ ids |-> chans[d][i]]
<1>2. chans' = [chans EXCEPT ![d] = more]
  BY <1>1 DEF RemoveIf
<1>3. /\ StoreInv' /\ CommandsInv' /\ WorkInv' /\ commands' = commands /\ sent' = sent
  BY ThreadsRest DEF RemoveChannels
<1>4. /\ more = [i \in DOMAIN more |-> more[i]]
      /\ \A i \in DOMAIN more : ChanSound(d, i, more[i], commands)
  BY DEF AfcInv, ChanInv
<1> HIDE DEF more
<1>5. ChanInv'
  BY <1>2, <1>3, <1>4, ChansKeep, ZenonT(30)
<1>6. SentInv'
  BY <1>3, Zenon DEF AfcInv, SentInv
<1> QED
  BY <1>3, <1>5, <1>6, Zenon DEF AfcInv

\* A device that starts again has no channels, and its threads are doing nothing.
LEMMA CrashKeeps ==
  ASSUME StoreInv, AfcInv, NEW d \in Devices, Crash(d)
  PROVE  StoreInv' /\ AfcInv'
<1> DEFINE lost == {t \in Callers : HomeOf[t] = d}
<1>1. /\ Die(lost) /\ chans' = [chans EXCEPT ![d] = <<>>]
      /\ work' = [t \in Callers |-> IF t \in lost THEN NoWork ELSE work[t]]
      /\ plan' = plan /\ asked' = asked /\ commands' = commands /\ sent' = sent
  BY Zenon DEF Crash
<1>2. lost \in SUBSET Callers
  OBVIOUS
<1> HIDE DEF lost
<1>3. StoreInv' /\ \A u \in Callers \ lost : calls'[u].id = calls[u].id
  BY <1>1, <1>2, DieSound, ZenonT(60)
<1>4. Roots' = Roots /\ CommandsInv'
  BY <1>1 DEF AfcInv, CommandsInv, Roots, CommandOf
<1>5. SentInv'
  BY <1>1 DEF AfcInv, SentInv
<1>6. ChanInv'
  <2>1. <<>> = [i \in DOMAIN <<>> |-> <<>>[i]] /\ DOMAIN <<>> = {}
    OBVIOUS
  <2> QED
    BY <1>1, <2>1, ChansKeep
<1>7. WorkInv'
  <2>1. \A u \in Callers : TaskSound(work[u], calls[u].id, commands', Roots')
    BY <1>1, <1>4, Zenon DEF AfcInv, WorkInv
  <2>2. \A u \in Callers : TaskSound(NoWork, calls'[u].id, commands', Roots')
    BY NoWorkSound
  <2>3. \A u \in Callers : /\ u \in lost => work'[u] = NoWork
                           /\ u \notin lost => work'[u] = work[u]
    BY <1>1, Zenon
  <2>4. \A u \in Callers : TaskSound(work'[u], calls'[u].id, commands', Roots')
    BY <1>3, <2>1, <2>2, <2>3, Zenon
  <2>5. \A u \in Callers : work'[u].task \in Creating => work'[u] = work[u]
    BY <2>3, NoWorkSound
  <2>6. work' = [t \in Callers |-> work'[t]]
    BY <1>1
  <2> QED
    BY <2>4, <2>5, <2>6 DEF AfcInv, WorkInv
<1> QED
  BY <1>3, <1>4, <1>5, <1>6, <1>7 DEF AfcInv

-----------------------------------------------------------------------------

\* At the start there are the commands of the earlier process and no channels.
LEMMA AfcInitSound ==
  ASSUME StoreInv, AfcInit
  PROVE  AfcInv
<1> DEFINE n == plan.old
<1>1. /\ plan \in Plans /\ asked = n /\ work = [t \in Callers |-> NoWork]
      /\ commands = [root \in 1 .. n |-> CommandOf(root)]
      /\ chans = [d \in Devices |-> <<>>] /\ sent = {}
  BY DEF AfcInit
<1>2. /\ Len(plan.asks) \in Nat /\ n \in 0 .. Len(plan.asks)
      /\ \A root \in 1 .. n : plan.asks[root].kind \in ChannelKinds
  BY <1>1, ChannelsAssumption
<1> HIDE DEF n
<1>3. n \in Nat
  BY <1>2
<1>4. Roots = 1 .. n
  BY <1>1, <1>2, Zenon DEF Roots
<1>5. \A root \in 1 .. n : CommandOf(root).encap = root
  BY Zenon DEF CommandOf
<1>6. CommandsInv
  <2> DEFINE S == {CommandOf(root) : root \in Roots}
  <2>1. commands \in [1 .. n -> S]
    BY <1>1, <1>4
  <2>2. commands \in Seq(S)
    BY <1>3, <2>1
  <2> HIDE DEF S
  <2>3. \A i, j \in DOMAIN commands : commands[i].encap = commands[j].encap => i = j
    BY <1>1, <1>5
  <2>4. commands \in Seq({CommandOf(root) : root \in Roots})
    BY <2>2 DEF S
  <2> QED
    BY <1>1, <1>2, <2>3, <2>4, Zenon DEF CommandsInv
<1>7. WorkInv
  <2>1. \A t \in Callers : work[t] = NoWork /\ TaskSound(NoWork, calls[t].id, commands, Roots)
    BY <1>1, NoWorkSound, Zenon
  <2>2. NoWork.task \notin Creating
    BY NoWorkSound
  <2>3. work = [t \in Callers |-> work[t]]
    BY <1>1
  <2> QED
    BY <2>1, <2>2, <2>3, SMTT(30) DEF WorkInv
<1>8. ChanInv
  <2>1. <<>> = [i \in DOMAIN <<>> |-> <<>>[i]] /\ DOMAIN <<>> = {}
    OBVIOUS
  <2> QED
    BY <1>1, <2>1 DEF ChanInv
<1>9. SentInv
  BY <1>1, Zenon DEF SentInv
<1> QED
  BY <1>6, <1>7, <1>8, <1>9, Zenon DEF AfcInv

\* Every step keeps the invariant.
LEMMA ChannelNextKeeps ==
  ASSUME StoreInv, AfcInv, [ChannelNext]_channelVars
  PROVE  StoreInv' /\ AfcInv'
<1>1. CASE UNCHANGED channelVars
  <2>1. UNCHANGED <<storeVars, plan, asked, work, commands>> /\ chans' = chans /\ sent' = sent
    BY <1>1 DEF channelVars, afcVars
  <2>2. StoreInv' /\ CommandsInv' /\ WorkInv' /\ commands' = commands
    BY <2>1, ThreadsRest, Zenon
  <2>3. ChanInv' /\ SentInv'
    BY <2>1, <2>2 DEF AfcInv, ChanInv, SentInv
  <2> QED
    BY <2>2, <2>3 DEF AfcInv
<1>2. ASSUME NEW t \in Callers, StoreStep(t) \/ SystemCallFails(t), UNCHANGED afcVars
      PROVE  StoreInv' /\ AfcInv'
  BY <1>2, StoreStepSound, StoreOnlyKeeps
<1>3. ASSUME NEW t \in Callers, AppCalls(t) PROVE StoreInv' /\ AfcInv'
  BY <1>3, AppCallsKeeps
<1>4. ASSUME NEW t \in Callers, AppReturns(t) PROVE StoreInv' /\ AfcInv'
  BY <1>4, FailsKeeps, SMTT(30)
<1>5. ASSUME NEW t \in Callers, CreateChannel(t) PROVE StoreInv' /\ AfcInv'
  BY <1>5, CreateChannelKeeps
<1>6. ASSUME NEW t \in Callers, CreateSecrets(t) PROVE StoreInv' /\ AfcInv'
  BY <1>6, CreateSecretsKeeps
<1>7. ASSUME NEW t \in Callers, CreateReturns(t) PROVE StoreInv' /\ AfcInv'
  BY <1>7, CreateReturnsKeeps
<1>8. ASSUME NEW t \in Callers, NEW c \in DOMAIN commands, ChannelCreated(t, c)
      PROVE  StoreInv' /\ AfcInv'
  BY <1>8, ChannelCreatedKeeps
<1>9. ASSUME NEW t \in Callers, NEW c \in DOMAIN commands, ChannelReceived(t, c)
      PROVE  StoreInv' /\ AfcInv'
  BY <1>9, ChannelReceivedKeeps, SMTT(30)
<1>10. ASSUME NEW t \in Callers, CreatedSecret(t) PROVE StoreInv' /\ AfcInv'
  BY <1>10, CreatedSecretKeeps
<1>11. ASSUME NEW t \in Callers, CreatedKeys(t) PROVE StoreInv' /\ AfcInv'
  BY <1>11, CreatedKeysKeeps
<1>12. ASSUME NEW t \in Callers, ReceivedKeys(t) PROVE StoreInv' /\ AfcInv'
  BY <1>12, ReceivedKeysKeeps
<1>13. ASSUME NEW d \in Devices, NEW id \in DOMAIN chans[d], Seal(d, id)
       PROVE  StoreInv' /\ AfcInv'
  BY <1>13, SealKeeps
<1>14. ASSUME NEW d \in Devices, RemoveChannels(d) PROVE StoreInv' /\ AfcInv'
  BY <1>14, RemoveChannelsKeeps
<1>15. ASSUME NEW d \in Devices, Crash(d) PROVE StoreInv' /\ AfcInv'
  BY <1>15, CrashKeeps
<1> QED
  BY <1>1, <1>2, <1>3, <1>4, <1>5, <1>6, <1>7, <1>8, <1>9, <1>10, <1>11, <1>12, <1>13, <1>14, <1>15, ZenonT(60)
     DEF ChannelNext

\* In every behaviour a device opens exactly the messages that the other one sealed
\* for the channel they share now (client.rs open, handler.rs, bidi.rs, uni.rs over
\* the file key store), for any threads, plans, faults and numbers of messages.
THEOREM OpensExactlyAlways == ChannelSpec => []OpensExactly
<1>1. ChannelInit => StoreInv /\ AfcInv
  BY StoreInitSound, AfcInitSound DEF ChannelInit
<1>2. StoreInv /\ AfcInv /\ [ChannelNext]_channelVars => StoreInv' /\ AfcInv'
  BY ChannelNextKeeps
<1>3. StoreInv /\ AfcInv => OpensExactly
  BY OpensExactlyHolds DEF AfcInv
<1> QED
  BY <1>1, <1>2, <1>3, PTL DEF ChannelSpec

=============================================================================
