---------------------------- MODULE PolicyMachine ----------------------------
(***************************************************************************)
(* The policy machine (aranya-policy-vm: machine.rs, scope.rs, stack.rs)   *)
(* and its I/O on the fact database (aranya-runtime: vm_policy/io.rs): one *)
(* action per instruction.                                                 *)
(*                                                                         *)
(* An error ends the run and drops the run state, so what an instruction   *)
(* had popped before it failed is never seen: here it leaves the run state *)
(* alone.                                                                  *)
(***************************************************************************)
EXTENDS PolicyTracer, TLC

CONSTANTS
  Programs,   \* a sequence of [policy, ...]: the policies to run and how to call them
  StackSize,  \* STACK_SIZE
  MaxCalls    \* the depth of calls up to which a run is followed

ASSUME StackSizePositive == StackSize \in Nat \ {0}
ASSUME MaxCallsPositive == MaxCalls \in Nat \ {0}

\* every policy, compiled
Compiled == [i \in DOMAIN Programs |-> Compile(Programs[i].policy)] \o <<>>

VARIABLES
  policy,            \* the policy that is loaded: an index in Programs
  machine,           \* its module
  pc, stack,         \* of the run state
  locals,            \* ScopeManager: a stack of functions, each a stack of blocks
  call_state,        \* return addresses
  query_iter_stack,  \* the results every running `map' has still to see
  ctx,               \* the command context: [kind, name, id]
  status,            \* <<"Executing">>, <<"Exited", reason>> or <<"Error", kind>>
  facts,             \* the perspective: a set of <<name, keys, values>>
  publish_stack,     \* VmPolicyIO: the commands published so far
  effects            \* the sink

scope == <<locals, call_state, query_iter_stack>>
io == <<facts, publish_stack, effects>>
loaded == <<policy, machine>>
machine_vars == <<loaded, pc, stack, scope, ctx, status, io>>

Program == Programs[policy]
Instr == machine.progmem[pc + 1]

\* Machine::from_module keeps every part of the module.
Load ==
  /\ policy \in {i \in DOMAIN Programs : ~Failed(Compiled[i])}
  /\ machine = IntoModule(Compiled[policy])

Executing == <<"Executing">>

(***************************************************************************)
(* How an instruction ends.                                                *)
(***************************************************************************)
Err(kind) == status' = <<"Error", kind>> /\ UNCHANGED <<pc, stack, scope, io>>

Exit(reason) == status' = <<"Exited", reason>> /\ UNCHANGED <<pc, stack, scope, io>>

(***************************************************************************)
(* The error of popping values of these kinds, the top of the stack first; *)
(* "" when there is none.                                                  *)
(***************************************************************************)
Top(n) == stack[Len(stack) - n]
Dropped(n) == SubSeq(stack, 1, Len(stack) - n)

PopError(kinds) ==
  LET fits(i) == \/ kinds[i] = "Value"
                 \/ kinds[i] = "Hashable" /\ Hashable(Top(i - 1))
                 \/ Is(Top(i - 1), kinds[i])
      bad == {i \in DOMAIN kinds : i > Len(stack) \/ ~fits(i)}
  IN IF bad = {} THEN "" ELSE IF Min(bad) > Len(stack) THEN "StackUnderflow" ELSE "InvalidType"

At(name) == Instr[1] = name

\* An instruction that only works on the stack.
OnStack(kinds, new_stack) ==
  IF PopError(kinds) # "" THEN Err(PopError(kinds))
  ELSE IF Len(new_stack) > StackSize THEN Err("StackOverflow")
  ELSE stack' = new_stack /\ pc' = pc + 1 /\ UNCHANGED <<status, scope, io>>

(***************************************************************************)
(* ScopeManager.                                                           *)
(***************************************************************************)
EmptyScope == <<<<<<>>>>>>

ScopeGet(name) ==
  LET blocks == Last(locals)
      holders == {i \in DOMAIN blocks : name \in DOMAIN blocks[i]}
  IN IF locals # <<>> /\ holders # {} THEN blocks[Max(holders)][name] ELSE machine.globals[name]

ScopeHas(name) ==
  \/ locals # <<>> /\ \E i \in DOMAIN Last(locals) : name \in DOMAIN Last(locals)[i]
  \/ name \in DOMAIN machine.globals

ScopeSetError(name) ==
  IF name \in DOMAIN machine.globals THEN "AlreadyDefined"
  ELSE IF locals = <<>> THEN "BadState"
  ELSE IF \E i \in DOMAIN Last(locals) : name \in DOMAIN Last(locals)[i] THEN "AlreadyDefined"
  ELSE IF Last(locals) = <<>> THEN "BadState" ELSE ""

ScopeSet(name, v) ==
  LET blocks == Last(locals)
  IN Append(Front(locals), Append(Front(blocks), SetField(Last(blocks), name, v)))

(***************************************************************************)
(* Constants, variables and the stack.                                     *)
(***************************************************************************)
Const == At("Const") /\ OnStack(<<>>, Append(stack, Instr[2]))

Def ==
  /\ At("Def")
  /\ IF PopError(<<"Value">>) # "" THEN Err(PopError(<<"Value">>))
     ELSE IF ScopeSetError(Instr[2]) # "" THEN Err(ScopeSetError(Instr[2]))
     ELSE /\ locals' = ScopeSet(Instr[2], Top(0))
          /\ stack' = Dropped(1)
          /\ pc' = pc + 1
          /\ UNCHANGED <<call_state, query_iter_stack, status, io>>

Get ==
  /\ At("Get")
  /\ IF ScopeHas(Instr[2]) THEN OnStack(<<>>, Append(stack, ScopeGet(Instr[2])))
     ELSE Err("NotDefined")

Swap ==
  /\ At("Swap")
  /\ LET i == Len(stack)
         j == i - Instr[2]
     IN IF Instr[2] = 0 THEN Err("InvalidInstruction")
        ELSE IF j < 1 THEN Err("StackUnderflow")
        ELSE OnStack(<<>>, [stack EXCEPT ![i] = stack[j], ![j] = stack[i]])

Dup ==
  /\ At("Dup")
  /\ IF Len(stack) <= Instr[2] THEN Err("StackUnderflow")
     ELSE OnStack(<<>>, Append(stack, Top(Instr[2])))

\* an empty stack is no error
Pop == At("Pop") /\ OnStack(<<>>, IF stack = <<>> THEN stack ELSE Dropped(1))

Block ==
  /\ At("Block")
  /\ locals' = Append(Front(locals), Append(Last(locals), <<>>))
  /\ pc' = pc + 1
  /\ UNCHANGED <<stack, call_state, query_iter_stack, status, io>>

End ==
  /\ At("End")
  /\ IF Last(locals) = <<>> THEN Err("BadState")
     ELSE /\ locals' = Append(Front(locals), Front(Last(locals)))
          /\ pc' = pc + 1
          /\ UNCHANGED <<stack, call_state, query_iter_stack, status, io>>

Meta == At("Meta") /\ OnStack(<<>>, stack)

(***************************************************************************)
(* Control flow.                                                           *)
(***************************************************************************)
Jump ==
  /\ At("Jump")
  /\ IF Instr[2][1] = "Unresolved" THEN Err("UnresolvedTarget")
     ELSE pc' = Instr[2][2] /\ UNCHANGED <<stack, status, scope, io>>

Branch ==
  /\ At("Branch")
  /\ IF PopError(<<"Bool">>) # "" THEN Err(PopError(<<"Bool">>))
     ELSE IF Top(0)[2] /\ Instr[2][1] = "Unresolved" THEN Err("UnresolvedTarget")
     ELSE /\ stack' = Dropped(1)
          /\ pc' = IF Top(0)[2] THEN Instr[2][2] ELSE pc + 1
          /\ UNCHANGED <<status, scope, io>>

\* The code has no limit to the depth of calls; MaxCalls is that of the model.
Call ==
  /\ At("Call") /\ Len(call_state) < MaxCalls
  /\ IF Instr[2][1] = "Unresolved" THEN Err("UnresolvedTarget")
     ELSE /\ locals' = Append(locals, <<<<>>>>)
          /\ call_state' = Append(call_state, pc)
          /\ pc' = Instr[2][2]
          /\ UNCHANGED <<stack, query_iter_stack, status, io>>

Return ==
  /\ At("Return")
  /\ IF call_state = <<>> THEN Exit("Normal")
     ELSE /\ pc' = Last(call_state) + 1
          /\ call_state' = Front(call_state)
          /\ locals' = Front(locals)
          /\ UNCHANGED <<stack, query_iter_stack, status, io>>

ExitInstr == At("Exit") /\ Exit(Instr[2])

(***************************************************************************)
(* Arithmetic, logic and comparison.                                       *)
(***************************************************************************)
AddSub ==
  /\ At("Add") \/ At("Sub")
  /\ LET r == IF Instr[1] = "Add" THEN Top(1)[2] + Top(0)[2] ELSE Top(1)[2] - Top(0)[2]
     IN IF PopError(<<"Int", "Int">>) = "" /\ ~InRange(r) THEN Err("IntegerOverflow")
        ELSE OnStack(<<"Int", "Int">>, Append(Dropped(2), Int_(r)))

AndOr ==
  /\ At("And") \/ At("Or")
  /\ LET r == IF Instr[1] = "And" THEN Top(0)[2] /\ Top(1)[2] ELSE Top(0)[2] \/ Top(1)[2]
     IN OnStack(<<"Bool", "Bool">>, Append(Dropped(2), Bool_(r)))

Not == At("Not") /\ OnStack(<<"Bool">>, Append(Dropped(1), Bool_(~Top(0)[2])))

Compare ==
  /\ At("Gt") \/ At("Lt")
  /\ LET r == IF Instr[1] = "Gt" THEN Top(1)[2] > Top(0)[2] ELSE Top(1)[2] < Top(0)[2]
     IN OnStack(<<"Int", "Int">>, Append(Dropped(2), Bool_(r)))

Eq == At("Eq") /\ OnStack(<<"Value", "Value">>, Append(Dropped(2), Bool_(Top(1) = Top(0))))

(***************************************************************************)
(* Structs.                                                                *)
(***************************************************************************)
StructNew == At("StructNew") /\ OnStack(<<>>, Append(stack, Struct(Instr[2], <<>>)))

StructSet ==
  /\ At("StructSet")
  /\ LET s == Top(1)
         known == s[2] \in DOMAIN machine.struct_defs
         member == Instr[2] \in Range(Names(machine.struct_defs[s[2]]))
         error == PopError(<<"Value", "Struct">>)
     IN IF error # "" THEN Err(error)
        ELSE IF ~known THEN Err("InvalidSchema")
        ELSE IF ~member THEN Err("InvalidStructMember")
        ELSE OnStack(<<>>, Append(Dropped(2), Struct(s[2], SetField(s[3], Instr[2], Top(0)))))

StructGet ==
  /\ At("StructGet")
  /\ IF PopError(<<"Struct">>) = "" /\ Instr[2] \notin DOMAIN Top(0)[3]
     THEN Err("InvalidStructMember")
     ELSE OnStack(<<"Struct">>, Append(Dropped(1), Top(0)[3][Instr[2]]))

(***************************************************************************)
(* validate_struct_schema: the fields are those of the definition.  Each   *)
(* value's type is compared with itself, so no type is ever refused.       *)
(***************************************************************************)
StructFits(s) ==
  s[2] \in DOMAIN machine.struct_defs /\ DOMAIN s[3] = Range(Names(machine.struct_defs[s[2]]))

Publish ==
  /\ At("Publish")
  /\ LET error == PopError(<<"Struct">>)
     IN IF error # "" THEN Err(error)
        ELSE IF ~StructFits(Top(0)) THEN Err("InvalidSchema")
        ELSE /\ publish_stack' = Append(publish_stack, Top(0))
             /\ stack' = Dropped(1)
             /\ pc' = pc + 1
             /\ UNCHANGED <<status, scope, facts, effects>>

Emit ==
  /\ At("Emit")
  /\ LET error == PopError(<<"Struct">>)
     IN IF error # "" THEN Err(error)
        ELSE IF ~StructFits(Top(0)) THEN Err("InvalidSchema")
        ELSE IF ctx.kind \notin {"Policy", "Recall"} THEN Err("BadState")
        ELSE /\ effects' = Append(effects, [data |-> Top(0), command |-> ctx.id,
                                            recalled |-> ctx.kind = "Recall"])
             /\ stack' = Dropped(1)
             /\ pc' = pc + 1
             /\ UNCHANGED <<status, scope, facts, publish_stack>>

(***************************************************************************)
(* Serialize is for the command of a seal context, Deserialize for that of *)
(* an open context.                                                        *)
(***************************************************************************)
Serialize ==
  /\ At("Serialize")
  /\ IF ctx.kind # "Seal" THEN Err("InvalidInstruction")
     ELSE IF PopError(<<"Struct">>) = "" /\ Top(0)[2] # ctx.name THEN Err("InvalidInstruction")
     ELSE OnStack(<<"Struct">>, Append(Dropped(1), <<"Bytes", Top(0)>>))

Deserialize ==
  /\ At("Deserialize")
  /\ IF ctx.kind # "Open" THEN Err("InvalidInstruction")
     ELSE IF PopError(<<"Bytes">>) = "" /\ Top(0)[2][1] # "Struct" THEN Err("Unknown")
     ELSE IF PopError(<<"Bytes">>) = "" /\ Top(0)[2][2] # ctx.name
     THEN Err("InvalidInstruction")
     ELSE OnStack(<<"Bytes">>, Append(Dropped(1), Top(0)[2]))

\* validate_fact_schema and fact_match
LiteralFits(fact, def) ==
  LET fits(pairs, schema) ==
        \A i \in DOMAIN pairs : \E j \in DOMAIN schema :
          pairs[i][1] = schema[j][1] /\ VType(pairs[i][2]) = schema[j][2]
  IN fits(fact[3], def.key) /\ fits(fact[4], def.value)

FactMatch(query, f) ==
  /\ IsPrefix(query[3], f[2])
  /\ \A i \in DOMAIN query[4] : \E j \in DOMAIN f[3] :
       f[3][j] = query[4][i]

FactNew == At("FactNew") /\ OnStack(<<>>, Append(stack, NewFact(Instr[2])))

FactKeySet ==
  /\ At("FactKeySet")
  /\ OnStack(<<"Hashable", "Fact">>, Append(Dropped(2), SetKey(Top(1), Instr[2], Top(0))))

FactValueSet ==
  /\ At("FactValueSet")
  /\ OnStack(<<"Value", "Fact">>, Append(Dropped(2), SetValue(Top(1), Instr[2], Top(0))))

\* an instruction that leaves these facts and pops n values
ChangeFacts(new_facts, n) ==
  /\ facts' = new_facts
  /\ stack' = Dropped(n)
  /\ pc' = pc + 1
  /\ UNCHANGED <<status, scope, publish_stack, effects>>

Create ==
  /\ At("Create")
  /\ IF PopError(<<"Fact">>) # "" THEN Err(PopError(<<"Fact">>))
     ELSE ChangeFacts(FactInsert(facts, Top(0)[2], Top(0)[3], Top(0)[4]), 1)

Delete ==
  /\ At("Delete")
  /\ IF PopError(<<"Fact">>) # "" THEN Err(PopError(<<"Fact">>))
     ELSE ChangeFacts(FactDelete(facts, Top(0)[2], Top(0)[3]), 1)

\* Only the keys of the fact are looked up; the first one found is replaced.
Update ==
  /\ At("Update")
  /\ LET to == Top(0)
         from == Top(1)
         found == FactQuery(facts, from[2], from[3])
         error == PopError(<<"Fact", "Fact">>)
     IN IF error # "" THEN Err(error)
        ELSE IF found = <<>> THEN Err("InvalidFact")
        ELSE ChangeFacts(FactInsert(FactDelete(facts, from[2], found[1][2]),
                                    to[2], to[3], to[4]), 2)

\* the facts that match a literal on top of the stack, and the error it may raise
Matches(query) == SelectSeq(FactQuery(facts, query[2], query[3]), LAMBDA f : FactMatch(query, f))
QueryError ==
  IF PopError(<<"Fact">>) # "" THEN PopError(<<"Fact">>)
  ELSE IF Top(0)[2] \in DOMAIN machine.fact_defs /\ LiteralFits(Top(0), machine.fact_defs[Top(0)[2]])
  THEN "" ELSE "InvalidSchema"

Query ==
  /\ At("Query")
  /\ LET found == Matches(Top(0))
     IN IF QueryError # "" THEN Err(QueryError)
        ELSE OnStack(<<>>, Append(Dropped(1),
               IF found = <<>> THEN None_ ELSE AsStruct(Top(0)[2], found[1])))

FactCount ==
  /\ At("FactCount")
  /\ IF QueryError # "" THEN Err(QueryError)
     ELSE OnStack(<<>>, Append(Dropped(1),
            Int_(Min({Len(Matches(Top(0))), Instr[2]}))))

\* The iterator holds the facts of the moment the query starts, whatever their values.
QueryStart ==
  /\ At("QueryStart")
  /\ IF QueryError # "" THEN Err(QueryError)
     ELSE /\ query_iter_stack' =
               Append(query_iter_stack, FactQuery(facts, Top(0)[2], Top(0)[3]))
          /\ stack' = Dropped(1)
          /\ pc' = pc + 1
          /\ UNCHANGED <<locals, call_state, status, io>>

QueryNext ==
  /\ At("QueryNext")
  /\ LET rest == Last(query_iter_stack)
         error == ScopeSetError(Instr[2])
     IN IF query_iter_stack = <<>> THEN Err("BadState")
        ELSE IF rest # <<>> /\ error # "" THEN Err(error)
        ELSE IF Len(stack) = StackSize THEN Err("StackOverflow")
        ELSE /\ query_iter_stack' =
                  IF rest = <<>> THEN Front(query_iter_stack)
                  ELSE Append(Front(query_iter_stack), Tail(rest))
             /\ locals' = IF rest = <<>> THEN locals
                          ELSE ScopeSet(Instr[2], AsStruct(Instr[2], Head(rest)))
             /\ stack' = Append(stack, Bool_(rest = <<>>))
             /\ pc' = pc + 1
             /\ UNCHANGED <<call_state, status, io>>

\* External: the functions seal and open of the envelope module (testing.rs).
ExtCall ==
  /\ At("ExtCall")
  /\ \/ /\ Instr[3] = "seal"
        /\ IF ctx.kind # "Seal" THEN Err("Bug")
           ELSE LET id == HashId(ctx.id, Author, Top(0))
                IN OnStack(<<"Bytes">>, Append(Dropped(1),
                     Envelope(ctx.id, Author, id, Top(0), <<"Bytes", <<"LOL">>>>)))
     \/ /\ Instr[3] = "open"
        /\ OnStack(<<"Struct">>, Append(Dropped(1), Top(0)[3].payload))

Instruction ==
  \/ Const \/ Def \/ Get \/ Swap \/ Dup \/ Pop \/ Block \/ End \/ Meta
  \/ Jump \/ Branch \/ Call \/ Return \/ ExitInstr
  \/ AddSub \/ AndOr \/ Not \/ Compare \/ Eq
  \/ StructNew \/ StructSet \/ StructGet \/ Publish \/ Emit \/ Serialize \/ Deserialize
  \/ FactNew \/ FactKeySet \/ FactValueSet \/ Create \/ Delete \/ Update
  \/ Query \/ FactCount \/ QueryStart \/ QueryNext \/ ExtCall

\* RunState::step
Step ==
  /\ status = Executing
  /\ IF pc < Len(machine.progmem) THEN Instruction ELSE Err("InvalidAddress")
  /\ UNCHANGED <<loaded, ctx>>

(***************************************************************************)
(* How a run begins.  A new run state is empty; setup_function sets pc and *)
(* clears the calls and the scope, but neither the stack nor the running   *)
(* queries, which matters when a recall block runs in the run state of the *)
(* policy block.                                                           *)
(***************************************************************************)
HasLabel(label) == label \in DOMAIN machine.labels

SetupFunction(label, scope_set, on_stack) ==
  /\ pc' = machine.labels[label]
  /\ call_state' = <<>>
  /\ locals' = <<<<scope_set>>>>
  /\ stack' = on_stack
  /\ status' = Executing

\* setup_action refuses a wrong number of arguments or a wrong type.
ActionArgsFit(name, args) ==
  /\ name \in DOMAIN machine.action_defs
  /\ Len(args) = Len(machine.action_defs[name])
  /\ \A i \in DOMAIN args : FitsType(args[i], machine.action_defs[name][i][2])

\* setup_command refuses a `this' that has other fields or types than the command.
ThisFits(name, fields) ==
  /\ name \in DOMAIN machine.command_defs
  /\ DOMAIN fields = DOMAIN machine.command_defs[name]
  /\ \A f \in DOMAIN fields : FitsType(fields[f], machine.command_defs[name][f])

=============================================================================
