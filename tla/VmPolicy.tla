------------------------------ MODULE VmPolicy ------------------------------
(***************************************************************************)
(* The policy of a client on the policy machine (aranya-runtime:           *)
(* vm_policy.rs, vm_policy/protocol.rs).                                   *)
(*                                                                         *)
(* call_action runs the code of an action once, which publishes commands;  *)
(* then every command is sealed, opened again, evaluated by its policy     *)
(* block and added to the perspective.  call_rule opens and evaluates one  *)
(* command that is already sealed.  Who makes these calls is the matter of *)
(* PolicyClient.                                                           *)
(***************************************************************************)
EXTENDS PolicyMachine

VARIABLES
  phase,      \* what VmPolicy is doing; "Idle": nothing, "Done": it has returned
  publishing, \* the call is call_action, not call_rule
  recall,     \* CommandRecall of call_rule
  parent,     \* `parent' of call_action, or NoId
  queue,      \* the published commands still to be handled
  command,    \* the command being handled
  head,       \* the head of the perspective: an id, or NoId
  graph,      \* the perspective is one of the graph, not of a session
  added,      \* the commands added to the perspective
  rule,       \* what the policy block began with: [this, facts, effects]
  result      \* what the call returned; "" before

perspective == <<head, graph, added>>
driver == <<phase, publishing, recall, parent, queue, command, perspective, rule, result>>
policy_vars == <<machine_vars, driver>>

NoCommand == [variant |-> "none"]
NoRule == [this |-> None_, facts |-> {}, effects |-> <<>>]

IdlePolicy ==
  /\ pc = 0 /\ stack = <<>> /\ locals = EmptyScope /\ call_state = <<>>
  /\ query_iter_stack = <<>> /\ ctx = [kind |-> "none"] /\ status = <<"Idle">>
  /\ facts = {} /\ publish_stack = <<>> /\ effects = <<>>
  /\ phase = "Idle" /\ publishing = FALSE /\ recall = "None" /\ parent = NoId
  /\ queue = <<>> /\ command = NoCommand /\ head = NoId /\ graph = FALSE
  /\ added = <<>> /\ rule = NoRule /\ result = ""

\* A new run state in this context, at this label.
Run(label, scope_set, on_stack, context) ==
  /\ SetupFunction(label, scope_set, on_stack)
  /\ query_iter_stack' = <<>>
  /\ ctx' = context

NoRun == UNCHANGED <<pc, stack, scope, ctx, status>>

Exited(reason) == status = <<"Exited", reason>>
Stopped == status[1] \in {"Exited", "Error"}

\* EngineError for the way a run ended
ErrorOf(check, panic) ==
  IF Exited("Check") THEN check ELSE IF Exited("Panic") THEN panic ELSE "InternalError"

Go(p) == phase' = p /\ UNCHANGED result
Returns(res) == phase' = "Done" /\ result' = res

(***************************************************************************)
(* call_action: the parent of every command is the head at the start.  The *)
(* caller of CallAction and CallRule sets up the perspective.              *)
(***************************************************************************)
CallAction(name, args, at_head) ==
  /\ publishing' = TRUE /\ recall' = "None" /\ parent' = at_head
  /\ UNCHANGED <<queue, command, rule, loaded>>
  /\ IF ActionArgsFit(name, args)
     THEN /\ Run(Label(name, "Action"), <<>>, args,
                 [kind |-> "Action", name |-> name, id |-> at_head])
          /\ Go("Action")
     ELSE NoRun /\ Returns("InternalError")

ActionReturns ==
  /\ phase = "Action" /\ Stopped
  /\ IF Exited("Normal") THEN queue' = publish_stack /\ Go("Next")
     ELSE UNCHANGED queue /\ Returns(ErrorOf("Check", "Panic"))
  /\ UNCHANGED <<machine_vars, publishing, recall, parent, command, perspective, rule>>

\* the next published command, sealed in a run of its own
SealCommand ==
  /\ phase = "Next" /\ queue # <<>>
  /\ LET s == Head(queue)
     IN IF HasLabel(Label(s[2], "CommandSeal"))
        THEN /\ Run(Label(s[2], "CommandSeal"), <<>>, <<s>>,
                    [kind |-> "Seal", name |-> s[2], id |-> parent])
             /\ command' = [variant |-> IF parent = NoId THEN "Init" ELSE "Basic",
                            name |-> s[2]]
             /\ queue' = Tail(queue)
             /\ Go("Seal")
        ELSE NoRun /\ UNCHANGED <<command, queue>> /\ Returns("InternalError")
  /\ UNCHANGED <<loaded, io, publishing, recall, parent, perspective, rule>>

\* TryFrom<Struct> for Envelope
IsEnvelope(v) ==
  /\ Is(v, "Struct") /\ v[2] = "Envelope"
  /\ \A f \in {"parent_id", "author_id", "command_id"} : f \in DOMAIN v[3] /\ Is(v[3][f], "Id")
  /\ \A f \in {"payload", "signature"} : f \in DOMAIN v[3] /\ Is(v[3][f], "Bytes")

\* call_rule builds the envelope again from the command's data
RuleEnvelope(c) ==
  Envelope(IF c.variant = "Init" THEN NoId ELSE c.parent, c.author, c.id, c.payload, c.signature)

OpenRun(c) ==
  Run(Label(c.name, "CommandOpen"), <<>>, <<RuleEnvelope(c)>>, [kind |-> "Open", name |-> c.name])

SealReturns ==
  /\ phase = "Seal" /\ Stopped
  /\ LET sealed == Last(stack)
         c == [variant |-> command.variant, name |-> command.name, parent |-> parent,
               author |-> sealed[3].author_id, id |-> sealed[3].command_id,
               payload |-> sealed[3].payload, signature |-> sealed[3].signature]
     IN IF Exited("Normal") /\ stack # <<>> /\ IsEnvelope(sealed)
        THEN command' = c /\ OpenRun(c) /\ Go("Open")
        ELSE NoRun /\ UNCHANGED command /\ Returns(ErrorOf("Check", "Panic"))
  /\ UNCHANGED <<loaded, io, publishing, recall, parent, queue, perspective, rule>>

(***************************************************************************)
(* call_rule: a merge always passes.                                       *)
(***************************************************************************)
CallRule(c, on_check) ==
  /\ publishing' = FALSE /\ recall' = on_check /\ command' = c
  /\ UNCHANGED <<parent, queue, rule, loaded>>
  /\ IF c.variant = "Merge" THEN NoRun /\ Returns("Ok")
     ELSE IF HasLabel(Label(c.name, "CommandOpen")) THEN OpenRun(c) /\ Go("Open")
     ELSE NoRun /\ Returns("InternalError")

\* open_command reports a panic as a check; evaluate_rule starts the policy block.
OpenReturns ==
  /\ phase = "Open" /\ Stopped
  /\ LET opened == Last(stack)
         ok == Exited("Normal") /\ stack # <<>> /\ Is(opened, "Struct")
         this == Struct(command.name, opened[3])
     IN IF ok /\ ThisFits(command.name, opened[3])
        THEN /\ Run(Label(command.name, "CommandPolicy"), [this |-> this],
                    <<RuleEnvelope(command)>>,
                    [kind |-> "Policy", name |-> command.name, id |-> command.id])
             /\ rule' = [this |-> this, facts |-> facts, effects |-> effects]
             /\ Go("Policy")
        ELSE /\ NoRun
             /\ UNCHANGED rule
             /\ Returns(IF ok THEN "InternalError" ELSE ErrorOf("Check", "Check"))
  /\ UNCHANGED <<loaded, io, publishing, recall, parent, queue, command, perspective>>

(***************************************************************************)
(* The end of a policy block.  A published command is added to the         *)
(* perspective: one of the graph refuses a command whose parent is not its *)
(* head.  A check runs the recall block when the caller asked for it, in   *)
(* the same run state.                                                     *)
(***************************************************************************)
Accepted ==
  /\ phase = "Policy" /\ Exited("Normal")
  /\ IF ~publishing \/ (graph /\ parent # head)
     THEN Returns(IF publishing THEN "Write" ELSE "Ok") /\ UNCHANGED <<head, added>>
     ELSE head' = command.id /\ added' = Append(added, command) /\ Go("Next")
  /\ UNCHANGED <<machine_vars, publishing, recall, parent, queue, command, graph, rule>>

Checked ==
  /\ phase = "Policy" /\ Exited("Check")
  /\ IF recall = "OnCheck"
     THEN /\ SetupFunction(Label(command.name, "CommandRecall"), [this |-> rule.this],
                           Append(stack, RuleEnvelope(command)))
          /\ ctx' = [ctx EXCEPT !.kind = "Recall"]
          /\ UNCHANGED query_iter_stack
          /\ Go("Recall")
     ELSE NoRun /\ Returns("Check")
  /\ UNCHANGED <<loaded, io, publishing, recall, parent, queue, command, perspective, rule>>

Refused ==
  /\ phase = "Policy" /\ Stopped /\ ~Exited("Normal") /\ ~Exited("Check")
  /\ Returns(ErrorOf("Check", "Panic"))
  /\ UNCHANGED <<machine_vars, publishing, recall, parent, queue, command, perspective, rule>>

RecallReturns ==
  /\ phase = "Recall" /\ Stopped
  /\ Returns(IF Exited("Normal") \/ Exited("Check") THEN "Check" ELSE "Panic")
  /\ UNCHANGED <<machine_vars, publishing, recall, parent, queue, command, perspective, rule>>

AllHandled ==
  /\ phase = "Next" /\ queue = <<>>
  /\ Returns("Ok")
  /\ UNCHANGED <<machine_vars, publishing, recall, parent, queue, command, perspective, rule>>

PolicyNext ==
  \/ Step /\ UNCHANGED driver
  \/ ActionReturns \/ SealCommand \/ SealReturns \/ OpenReturns
  \/ Accepted \/ Checked \/ Refused \/ RecallReturns \/ AllHandled

=============================================================================
