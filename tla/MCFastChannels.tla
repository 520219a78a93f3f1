--------------------------- MODULE MCFastChannels ---------------------------
(***************************************************************************)
(* Small instances, for TLC, of two parts of the fast channels that share  *)
(* no state: the mutex of the shared-memory lists (FutexMutex), and the    *)
(* set-up and use of channels over the file key store (AfcChannels).       *)
(* `part' says which of them runs; the other one stays as it starts.       *)
(*                                                                         *)
(* The channels are those of two devices.  The author's runs policies in   *)
(* one thread and the handler in up to two clones, the peer's runs one     *)
(* handler.                                                                *)
(***************************************************************************)
EXTENDS FutexMutex, AfcChannels

CONSTANTS t1, t2, t3

MCThreads == {t1, t2, t3}

\* Two threads come back for the mutex, the third is there once.
MCMaxLocks == [t \in MCThreads |-> IF t = t3 THEN 1 ELSE 2]

MCNoLocks == [t \in MCThreads |-> 0]

MCCallers == {"ffi", "handler", "clone", "peer"}

MCHomeOf == [t \in MCCallers |-> IF t = "peer" THEN Peer ELSE Author]

MCFfiCallers == {"ffi"}

MCIds == {EncKeyId(d) : d \in Devices} \cup {ChannelKeyId(root) : root \in 1 .. 2}
         \cup {AppKeyId}

MCFirstKeys == <<EncKeyId(Author), EncKeyId(Peer)>>

Ask(kind, label) == [kind |-> kind, label |-> label]

Plan(asks, old, handlers, effects_, faults_) ==
  [asks |-> asks, old |-> old, handlers |-> handlers, effects |-> effects_, faults |-> faults_]

Clones == {"handler", "clone"}

\* A channel whose effect reaches two clones of the handler, and one whose effect
\* reaches them again; a channel that replaces another, of each kind; two channels
\* side by side; and two threads of an application that store one key.
MCPlans == {
  Plan(<<Ask("bidi", 1)>>, 0, Clones, 2, 1),
  Plan(<<Ask("bidi", 1)>>, 1, Clones, 2, 1),
  Plan(<<Ask("bidi", 1), Ask("bidi", 1)>>, 0, {"handler"}, 1, 1),
  Plan(<<Ask("bidi", 1), Ask("open", 1)>>, 0, {"handler"}, 1, 1),
  Plan(<<Ask("seal", 1), Ask("bidi", 2)>>, 0, {"handler"}, 1, 1),
  Plan(<<Ask("insert", 0), Ask("insert", 0)>>, 0, Clones, 0, 1),
  Plan(<<Ask("get", 0), Ask("insert", 0), Ask("get", 0), Ask("insert", 0)>>, 0, Clones, 0, 0) }

\* The handlers are given the effect a third time.
MCPlansThrice == { Plan(<<Ask("bidi", 1)>>, 0, Clones, 3, 0) }

VARIABLE part

PartInit ==
  /\ part \in {"mutex", "channels"}
  /\ Init
  /\ ChannelInit
  /\ part = "mutex" => plan = CHOOSE p \in Plans : TRUE
  /\ part = "channels" => ~casMutex

PartNext ==
  \/ part = "mutex" /\ Next /\ UNCHANGED <<part, channelVars>>
  \/ part = "channels" /\ (ChannelNext \/ ChannelsRest) /\ UNCHANGED <<part, vars>>

\* The fairness of FutexMutex!FairSpec.
PartSpec ==
  /\ PartInit
  /\ [][PartNext]_<<part, vars, channelVars>>
  /\ \A t \in Threads : WF_vars(part = "mutex" /\ Step(t))

=============================================================================
