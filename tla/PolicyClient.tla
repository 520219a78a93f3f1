---------------------------- MODULE PolicyClient ----------------------------
(***************************************************************************)
(* The calls a client makes of its policy (aranya-runtime: client.rs,      *)
(* client/transaction.rs, client/session.rs): an action on the graph, the  *)
(* evaluation of commands that arrive, the evaluation of the braid when    *)
(* two of them are merged, and ephemeral sessions, which publish commands  *)
(* to a message sink instead of the graph.                                 *)
(*                                                                         *)
(* Here the graph is its head and the facts at the head; how commands are  *)
(* stored and ordered is in Transaction and SegmentGraph.  An effect sink  *)
(* is what the application passes to a call: what was consumed is          *)
(* delivered when the call commits it, and dropped when it rolls back.     *)
(***************************************************************************)
EXTENDS VmPolicy

\* A program is [policy, calls, bound, starts]: the calls a client may make, how many,
\* and the graphs [facts, head] to begin with.  A call is [kind, ...]:
\*   "new_graph", "action", "send"  [name, args]
\*   "add"                          [command]
\*   "commit", "receive"
\*   "session"                      [peer]

VARIABLES
  call,       \* the last call
  calls_made, \* how many there were
  store,      \* the committed graph: [facts, head]; no graph when head is NoId
  heads,      \* the transaction: commands accepted on top of the head, with their facts
  todo,       \* the braid: commands still to be evaluated
  sessions,   \* the sessions of two peers on this graph; session 1 sends, 2 receives
  wire,       \* the messages of session 1 that were sent
  received,   \* which of them session 2 has received, in order
  delivered,  \* the effects the last call committed
  before      \* history: store, heads, sessions, wire when the last call began

client == <<store, heads, sessions, wire>>
client_vars == <<call, calls_made, client, todo, received, delivered, before>>
vars == <<policy_vars, client_vars>>

NoCall == [kind |-> "none"]
NoSession == [facts |-> {}, base |-> {}, head |-> NoId]
Snapshot == [store |-> store, heads |-> heads, sessions |-> sessions, wire |-> wire]

Init ==
  /\ Load
  /\ IdlePolicy
  /\ store \in Program.starts
  /\ heads = {} /\ todo = <<>> /\ sessions = <<NoSession, NoSession>>
  /\ wire = <<>> /\ received = <<>> /\ delivered = <<>>
  /\ call = NoCall /\ calls_made = 0 /\ before = Snapshot

(***************************************************************************)
(* The beginning of a call: sink.begin, and a perspective to work on.      *)
(***************************************************************************)
Begin(c, fs, at_head, on_graph) ==
  /\ call' = c /\ calls_made' = calls_made + 1
  /\ before' = Snapshot
  /\ facts' = fs /\ head' = at_head /\ graph' = on_graph
  /\ effects' = <<>> /\ added' = <<>> /\ publish_stack' = <<>>

\* ClientState::new_graph begins with nothing.
NewGraph(c) ==
  /\ c.kind = "new_graph" /\ store.head = NoId
  /\ Begin(c, {}, NoId, TRUE)
  /\ CallAction(c.name, c.args, NoId)
  /\ UNCHANGED <<client, todo, received, delivered>>

\* ClientState::action works on the head of the graph.
Action(c) ==
  /\ c.kind = "action" /\ store.head # NoId /\ heads = {}
  /\ Begin(c, store.facts, store.head, TRUE)
  /\ CallAction(c.name, c.args, store.head)
  /\ UNCHANGED <<client, todo, received, delivered>>

\* Transaction::add_single and Transaction::init: a command on top of the head.
AddCommand(c) ==
  /\ c.kind = "add"
  /\ (c.command.variant = "Init") = (store.head = NoId)
  /\ c.command.variant = "Basic" => c.command.parent = store.head
  /\ \A b \in heads : b.command # c.command
  /\ Begin(c, store.facts, store.head, TRUE)
  /\ CallRule(c.command, "None")
  /\ UNCHANGED <<client, todo, received, delivered>>

(***************************************************************************)
(* Transaction::commit with two heads: make_braid_segment evaluates the    *)
(* commands of both heads again, in the order of the braid.                *)
(***************************************************************************)
Braid(c) ==
  /\ c.kind = "commit" /\ store.head # NoId
  /\ \E a, b \in heads :
       /\ a # b
       /\ Begin(c, store.facts, store.head, TRUE)
       /\ CallRule(a.command, "OnCheck")
       /\ todo' = <<b.command>>
  /\ UNCHANGED <<client, received, delivered>>

\* Session::new takes the facts at the head of the graph.
OpenSession(c) ==
  /\ c.kind = "session" /\ store.head # NoId /\ sessions[c.peer] = NoSession
  /\ sessions' = [sessions EXCEPT ![c.peer] =
                    [facts |-> store.facts, base |-> store.facts, head |-> store.head]]
  /\ call' = NoCall /\ calls_made' = calls_made + 1
  /\ UNCHANGED <<policy_vars, store, heads, wire, todo, received, delivered, before>>

\* Session::action
SessionAction(c) ==
  /\ c.kind = "send" /\ sessions[1] # NoSession
  /\ Begin(c, sessions[1].facts, sessions[1].head, FALSE)
  /\ CallAction(c.name, c.args, sessions[1].head)
  /\ UNCHANGED <<client, todo, received, delivered>>

\* Session::receive, of any message: the transport is the application's.
SessionReceive(c) ==
  /\ c.kind = "receive" /\ sessions[2] # NoSession
  /\ Begin(c, sessions[2].facts, sessions[2].head, FALSE)
  /\ \E i \in DOMAIN wire :
       /\ CallRule(wire[i], "None")
       /\ received' = Append(received, i)
  /\ UNCHANGED <<client, todo, delivered>>

(***************************************************************************)
(* The end of a call: the perspective is kept and the sink committed, or   *)
(* the perspective is dropped or reverted and the sink rolled back.        *)
(***************************************************************************)
End_Call(ok) ==
  /\ phase' = "Idle"
  /\ delivered' = IF ok THEN effects ELSE <<>>
  /\ UNCHANGED <<machine_vars, publishing, recall, parent, queue, command, perspective, rule,
                 result, call, calls_made, received, before>>

ActionDone ==
  /\ phase = "Done" /\ call.kind \in {"new_graph", "action"}
  /\ store' = IF result = "Ok" THEN [facts |-> facts, head |-> head] ELSE store
  /\ End_Call(result = "Ok")
  /\ UNCHANGED <<heads, sessions, wire, todo>>

\* a transaction of one command is committed with it when it is the graph's first
AddDone ==
  /\ phase = "Done" /\ call.kind = "add"
  /\ LET new == [command |-> command, facts |-> facts]
         first == command.variant = "Init"
     IN /\ heads' = IF result = "Ok" /\ ~first THEN heads \cup {new} ELSE heads
        /\ store' = IF result = "Ok" /\ first THEN [facts |-> facts, head |-> command.id]
                    ELSE store
  /\ End_Call(result = "Ok")
  /\ UNCHANGED <<sessions, wire, todo>>

\* Transaction::commit with a single head
CommitOne(c) ==
  /\ c.kind = "commit"
  /\ \E b \in heads :
       /\ heads = {b}
       /\ store' = [facts |-> b.facts, head |-> b.command.id]
  /\ heads' = {}
  /\ call' = NoCall /\ calls_made' = calls_made + 1
  /\ UNCHANGED <<policy_vars, sessions, wire, todo, received, delivered, before>>

(***************************************************************************)
(* The loop of make_braid_segment: a check is no reason to stop, and       *)
(* nothing is reverted.  The merge command becomes the head.               *)
(***************************************************************************)
MergeId == <<"Id", <<"merge", {b.command.id : b \in heads}>>>>

BraidNext ==
  /\ phase = "Done" /\ call.kind = "commit" /\ result \in {"Ok", "Check"} /\ todo # <<>>
  /\ CallRule(Head(todo), "OnCheck")
  /\ todo' = Tail(todo)
  /\ UNCHANGED <<call, calls_made, client, received, delivered, before, io, perspective>>

BraidDone ==
  /\ phase = "Done" /\ call.kind = "commit"
  /\ result \in {"Ok", "Check"} => todo = <<>>
  /\ LET ok == result \in {"Ok", "Check"}
     IN /\ store' = IF ok THEN [facts |-> facts, head |-> MergeId] ELSE store
        /\ End_Call(ok)
  /\ heads' = {} /\ todo' = <<>>
  /\ UNCHANGED <<sessions, wire>>

\* As SessionActionDone, without the revert.
SessionActionKept ==
  /\ phase = "Done" /\ call.kind = "send"
  /\ sessions' = [sessions EXCEPT ![1].facts = facts, ![1].head = head]
  /\ wire' = IF result = "Ok" THEN wire \o added ELSE wire
  /\ End_Call(result = "Ok")
  /\ UNCHANGED <<store, heads, todo>>

\* Only the facts are reverted: the head stays where the failed action left it.
SessionActionDone ==
  /\ phase = "Done" /\ call.kind = "send"
  /\ sessions' = [sessions EXCEPT ![1].facts = IF result = "Ok" THEN facts ELSE @,
                                  ![1].head = head]
  /\ wire' = IF result = "Ok" THEN wire \o added ELSE wire
  /\ End_Call(result = "Ok")
  /\ UNCHANGED <<store, heads, todo>>

SessionReceiveDone ==
  /\ phase = "Done" /\ call.kind = "receive"
  /\ sessions' = [sessions EXCEPT ![2].facts = IF result = "Ok" THEN facts ELSE @]
  /\ End_Call(result = "Ok")
  /\ UNCHANGED <<store, heads, wire, todo>>

NextCall ==
  /\ phase = "Idle" /\ calls_made < Program.bound
  /\ \E c \in Program.calls :
       \/ NewGraph(c) \/ Action(c) \/ AddCommand(c) \/ Braid(c) \/ CommitOne(c)
       \/ OpenSession(c) \/ SessionAction(c) \/ SessionReceive(c)

Next ==
  \/ NextCall
  \/ PolicyNext /\ UNCHANGED client_vars
  \/ ActionDone \/ AddDone \/ BraidNext \/ BraidDone
  \/ SessionActionDone \/ SessionReceiveDone

\* A call is run to its end by the thread that made it.
Spec == Init /\ [][Next]_vars /\ WF_vars(phase # "Idle" /\ Next)

=============================================================================
