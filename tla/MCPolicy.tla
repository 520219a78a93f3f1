------------------------------ MODULE MCPolicy ------------------------------
(***************************************************************************)
(* Small policies for the compiler, the tracer, the machine and the        *)
(* client.  Each one is compiled and every call of it is run to the end,   *)
(* on integers small enough to overflow.                                   *)
(***************************************************************************)
EXTENDS PolicyClient, PolicySemantics

(***************************************************************************)
(* Source text.                                                            *)
(***************************************************************************)
N(n) == <<"Int", n>>
B(b) == <<"Bool", b>>
Id(x) == <<"Identifier", x>>
Op(op, a, b) == <<op, a, b>>
Lit(name, keys, values) == [name |-> name, keys |-> keys, values |-> values, valued |-> TRUE]
KeyLit(name, keys) == [name |-> name, keys |-> keys, values |-> <<>>, valued |-> FALSE]
New(name, fields) == <<"NamedStruct", name, fields>>
Let_(x, e) == <<"Let", x, e>>
Check_(e) == <<"Check", e>>
Finish_(body) == <<"Finish", body>>
EmitInt(e) == <<"Emit", New("EI", <<<<"v", e>>>>)>>
EmitBool(e) == <<"Emit", New("EB", <<<<"v", e>>>>)>>
FactF(k, v) == Lit("F", <<<<"k", k>>>>, <<<<"v", v>>>>)
FactG(a, b) == KeyLit("G", <<<<"a", a>>, <<"b", b>>>>)

X == <<"Dot", Id("this"), "x">>
Y == <<"Dot", Id("this"), "y">>

EnvelopeModule ==
  [ name |-> "envelope",
    structs |-> <<[name |-> "Envelope",
                   fields |-> <<<<"parent_id", TId>>, <<"author_id", TId>>, <<"command_id", TId>>,
                                <<"payload", TBytes>>, <<"signature", TBytes>>>>]>>,
    functions |-> <<[name |-> "seal", args |-> <<"payload">>, return_type |-> TStruct("Envelope")],
                    [name |-> "open", args |-> <<"envelope">>, return_type |-> TBytes]>> ]

Seal_ == <<<<"Return", <<"ForeignFunctionCall", "envelope", "seal",
                         <<<<"Serialize", Id("this")>>>>>>>>>>
Open_ == <<<<"Return", <<"Deserialize", <<"ForeignFunctionCall", "envelope", "open",
                                          <<Id("envelope")>>>>>>>>>>

\* command C { x int, y int } with these blocks
CommandC(policy_block, recall_block) ==
  [ name |-> "C", fields |-> <<<<"x", TInt>>, <<"y", TInt>>>>, policy |-> policy_block,
    recall |-> recall_block, seal |-> Seal_, open |-> Open_,
    attributes |-> <<<<"priority", N(1)>>>> ]

PublishC(x, y) == <<"Publish", New("C", <<<<"x", x>>, <<"y", y>>>>)>>

XY == <<<<"x", TInt>>, <<"y", TInt>>>>

\* function pick(n int) int { if n > 0 { return n } else if n == 0 { return one } return -n }
Pick ==
  [ name |-> "pick", arguments |-> <<<<"n", TInt>>>>, return_type |-> TInt,
    statements |->
      << <<"If", << <<Op("GreaterThan", Id("n"), N(0)), <<<<"Return", Id("n")>>>>>>,
                    <<Op("Equal", Id("n"), N(0)), <<<<"Return", Id("one")>>>>>> >>, <<>>>>,
         <<"Return", <<"Negative", Id("n")>>>> >> ]

\* function some(n int) int: falls off its end when n is not 0
Fall ==
  [ name |-> "fall", arguments |-> <<<<"n", TInt>>, <<"m", TInt>>>>, return_type |-> TInt,
    statements |->
      << <<"Match", Id("n"),
           << [default |-> FALSE, values |-> <<N(0)>>,
               body |-> <<<<"Return", <<"FunctionCall", "pick", <<Id("m")>>>>>>>>],
              [default |-> TRUE, values |-> <<>>, body |-> <<>>] >>>> >> ]

\* finish function put(k int, v int)
Put ==
  [ name |-> "put", arguments |-> <<<<"k", TInt>>, <<"v", TInt>>>>,
    statements |-> << <<"Create", FactF(Id("k"), Id("v"))>>, EmitInt(Id("v")) >> ]

Policy_(commands, actions) ==
  [ global_lets |-> <<<<"one", N(1)>>>>,
    effects |-> <<[name |-> "EI", fields |-> <<<<"v", TInt>>>>],
                  [name |-> "EB", fields |-> <<<<"v", TBool>>>>]>>,
    structs |-> <<[name |-> "S", fields |-> <<<<"a", TInt>>>>]>>,
    enums |-> <<[name |-> "Color", values |-> <<"Red", "Blue">>]>>,
    facts |-> <<[name |-> "F", key |-> <<<<"k", TInt>>>>, value |-> <<<<"v", TInt>>>>,
                 immutable |-> FALSE],
                [name |-> "G", key |-> <<<<"a", TInt>>, <<"b", TBool>>>>, value |-> <<>>,
                 immutable |-> TRUE]>>,
    commands |-> commands, functions |-> <<Pick, Fall>>, finish_functions |-> <<Put>>,
    actions |-> actions, ffi_imports |-> <<"envelope">>, ffi |-> <<EnvelopeModule>>,
    debug |-> TRUE ]

\* action do(x int, y int) { publish C { x: x, y: y } }
Do == [name |-> "do", arguments |-> XY, statements |-> <<PublishC(Id("x"), Id("y"))>>]

(***************************************************************************)
(* Expressions over this.x, this.y and the facts.                          *)
(***************************************************************************)
FoundF(k) == <<"Query", KeyLit("F", <<<<"k", k>>>>)>>

Each(seq, of(_)) == [i \in DOMAIN seq |-> of(seq[i])]

IntTerms ==
  << X, Y, Id("one"),
     <<"Dot", <<"Unwrap", FoundF(X)>>, "v">>, <<"Dot", <<"CheckUnwrap", FoundF(Y)>>, "v">>,
     <<"FunctionCall", "pick", <<X>>>>, <<"FunctionCall", "fall", <<X, Y>>>>,
     <<"FactCount", "UpTo", 1, FactF(Bind, Bind)>>,
     <<"Dot", New("S", <<<<"a", Y>>>>), "a">> >>

BoolTerms ==
  << Op("LessThan", X, Y), Op("Equal", X, Y), <<"Exists", FactG(X, Bind)>>,
     <<"Is", FoundF(X), TRUE>>, <<"Is", FoundF(Y), FALSE>>,
     Op("Equal", <<"EnumReference", "Color", "Red">>, <<"EnumReference", "Color", "Blue">>) >>

IntExprs ==
  IntTerms \o Each(IntTerms, LAMBDA a : Op("Add", a, Y))
           \o Each(IntTerms, LAMBDA a : Op("Subtract", X, a))
           \o Each(IntTerms, LAMBDA a : <<"Negative", a>>)
           \o Each(BoolTerms, LAMBDA c : <<"If", c, <<"Negative", X>>, Op("Add", X, Y)>>)

BoolExprs ==
  BoolTerms \o Each(BoolTerms, LAMBDA a : <<"Not", a>>)
            \o Each(BoolTerms, LAMBDA a : Op("And", a, <<"Exists", FactG(Y, B(TRUE))>>))
            \o Each(BoolTerms, LAMBDA a : Op("Or", Op("LessThan", X, N(0)), a))
            \o Each(<<"GreaterThan", "LessThanOrEqual", "GreaterThanOrEqual", "NotEqual">>,
                    LAMBDA op : Op(op, X, Y))
            \o Each(<<"AtLeast", "AtMost", "Exactly">>,
                    LAMBDA cmp : <<"FactCount", cmp, 1, FactF(Bind, X)>>)
            \o Each(<<"AtLeast", "AtMost", "Exactly">>,
                    LAMBDA cmp : <<"FactCount", cmp, 2, FactG(X, Bind)>>)

MCIntMin == -2

Small == {IntMin, 0, IntMax}

F_(k, v) == <<"F", <<<<"k", N(k)>>>>, <<<<"v", N(v)>>>>>>
G_(a, b) == <<"G", <<<<"a", N(a)>>, <<"b", B(b)>>>>, <<>>>>

Databases == { {}, {F_(0, IntMax), G_(0, TRUE)}, {F_(0, 0), F_(IntMax, 1), G_(0, TRUE), G_(0, FALSE)} }

(***************************************************************************)
(* Programs: a policy, the calls of it, and the graphs they begin with.    *)
(***************************************************************************)
Head0 == <<"Id", <<7>>>>
Graphs_ == {[facts |-> db, head |-> Head0] : db \in Databases}

ActionCall(kind, name, args) == [kind |-> kind, name |-> name, args |-> args]
DoCalls(kind) == {ActionCall(kind, "do", <<N(x), N(y)>>) : x, y \in Small}

\* one action on the graph, which publishes C and runs this policy block
OneAction(source) ==
  [policy |-> source, calls |-> DoCalls("action"), bound |-> 1, starts |-> Graphs_]

BlockPolicy(block) == Policy_(<<CommandC(block, <<>>)>>, <<Do>>)
BlockProgram(block) == OneAction(BlockPolicy(block))

ExprProgram(e, emit) == BlockProgram(<<Let_("r", e), Finish_(<<emit>>)>>)

ExprPrograms ==
  [i \in DOMAIN IntExprs |-> ExprProgram(IntExprs[i], EmitInt(Id("r")))]
    \o [i \in DOMAIN BoolExprs |-> ExprProgram(BoolExprs[i], EmitBool(Id("r")))]

(***************************************************************************)
(* Statements in a policy block.                                           *)
(***************************************************************************)
Arm(values, body) == [default |-> FALSE, values |-> values, body |-> body]
DefaultArm(body) == [default |-> TRUE, values |-> <<>>, body |-> body]
If_(branches, fallback) == <<"If", branches, fallback>>
IsPositive(e) == Op("GreaterThan", e, N(0))
UpdateF(k, v) == <<"Update", FactF(k, Bind), <<<<"v", v>>>>>>
EmitR == Finish_(<<EmitInt(Id("r"))>>)

Blocks ==
  << \* let in arms; no default
     <<<<"Match", X, <<Arm(<<N(0), N(1)>>, <<Let_("r", Y)>>), Arm(<<N(2)>>, <<Let_("r", X)>>)>>>>,
       EmitR>>,
     \* a check in a default arm, a finish in the other
     <<<<"Match", X, <<Arm(<<N(0)>>, <<Finish_(<<EmitInt(Y)>>)>>),
                       DefaultArm(<<Check_(IsPositive(Y)), Let_("r", X), EmitR>>)>>>>>>,
     \* let in every branch
     <<If_(<<<<IsPositive(X), <<Let_("r", X)>>>>, <<IsPositive(Y), <<Let_("r", Y)>>>>>>,
           <<<<Let_("r", N(0))>>>>), EmitR>>,
     \* let in some branches only
     <<If_(<<<<IsPositive(X), <<Let_("r", X)>>>>, <<IsPositive(Y), <<Let_("r", Y)>>>>>>, <<>>),
       EmitR>>,
     \* let in two branches that may both be taken
     <<If_(<<<<IsPositive(X), <<Let_("r", X)>>>>>>, <<>>),
       If_(<<<<IsPositive(Y), <<Let_("r", Y)>>>>>>, <<<<Check_(IsPositive(X))>>>>), EmitR>>,
     \* a path without finish
     <<If_(<<<<IsPositive(X), <<Let_("r", X), EmitR>>>>>>, <<>>)>>,
     <<Let_("r", X), If_(<<<<IsPositive(X), <<EmitR>>>>>>, <<>>), Check_(IsPositive(Y))>>,
     \* facts
     <<Check_(IsPositive(X)), Finish_(<<<<"Create", FactF(X, Y)>>, EmitInt(X)>>)>>,
     <<Finish_(<<UpdateF(X, Y), EmitInt(Y)>>)>>,
     <<Finish_(<<<<"Delete", KeyLit("F", <<<<"k", X>>>>)>>, <<"FunctionCall", "put", <<Y, X>>>>>>)>>,
     <<<<"DebugAssert", IsPositive(X)>>, Finish_(<<EmitInt(X)>>)>>,
     <<Let_("t", Op("LessThan", X, Y)), Finish_(<<<<"DebugAssert", Id("t")>>, EmitBool(Id("t"))>>)>>,
     \* structs that are not complete, or have another field
     <<Finish_(<<<<"Emit", New("EI", <<>>)>>>>)>>,
     <<Finish_(<<<<"Emit", New("EI", <<<<"w", X>>>>)>>>>)>>,
     \* an expression the finish block refuses
     <<Finish_(<<<<"Create", FactF(X, Y)>>,
                 EmitInt(<<"Dot", <<"CheckUnwrap", FoundF(Y)>>, "v">>)>>)>> >>

BlockPrograms == [i \in DOMAIN Blocks |-> BlockProgram(Blocks[i])]

NoDebug == OneAction([BlockPolicy(<<<<"DebugAssert", IsPositive(X)>>, Finish_(<<EmitInt(X)>>)>>)
                        EXCEPT !.debug = FALSE])

\* blocks that seal or open what they do not accept
Sealing(seal, open) ==
  OneAction(Policy_(<<[CommandC(<<Finish_(<<EmitInt(X)>>)>>, <<>>)
                         EXCEPT !.seal = seal, !.open = open]>>, <<Do>>))

Opened == Id("c")
OpenLet == Let_("c", Open_[1][2])
SealPrograms ==
  << Sealing(<<Check_(IsPositive(X))>> \o Seal_, Open_),
     Sealing(<<Let_("f", <<"Unwrap", FoundF(X)>>)>> \o Seal_, Open_),
     Sealing(<<If_(<<<<IsPositive(X), Seal_>>>>, <<>>)>>, Open_),
     Sealing(Seal_, <<OpenLet, Check_(IsPositive(<<"Dot", Opened, "x">>)),
                      <<"Return", Opened>>>>),
     Sealing(Seal_, <<OpenLet, Let_("f", <<"Unwrap", FoundF(<<"Dot", Opened, "y">>)>>),
                      <<"Return", Opened>>>>) >>

(***************************************************************************)
(* Actions.                                                                *)
(***************************************************************************)
StoreXY == <<Finish_(<<<<"Create", FactF(X, Y)>>, EmitInt(Y)>>)>>

ActionPolicy(statements) ==
  Policy_(<<CommandC(StoreXY, <<>>)>>,
          <<[name |-> "do", arguments |-> XY, statements |-> statements],
            [name |-> "other", arguments |-> <<<<"x", TInt>>>>,
             statements |-> <<PublishC(Id("x"), Id("one"))>>]>>)

ForEachF(body) == <<"Map", FactF(Bind, Bind), "f", body>>
DotF(field) == <<"Dot", Id("f"), field>>

Actions_ ==
  << <<ForEachF(<<PublishC(DotF("k"), Id("y"))>>)>>,
     <<ForEachF(<<Let_("s", Op("Add", DotF("v"), Id("x"))), Check_(IsPositive(Id("s")))>>),
       PublishC(Id("x"), Id("y"))>>,
     <<<<"Map", FactG(Id("x"), Bind), "g",
         <<ForEachF(<<Check_(IsPositive(DotF("v")))>>), PublishC(<<"Dot", Id("g"), "a">>, Id("y"))>>>>>>,
     <<<<"ActionCall", "other", <<Id("y")>>>>>>,
     <<Check_(IsPositive(Id("x"))), <<"ActionCall", "other", <<Id("x")>>>>, PublishC(Id("x"), Id("y"))>>,
     <<<<"Publish", New("C", <<<<"x", Id("x")>>>>)>>>> >>

ActionPrograms == [i \in DOMAIN Actions_ |-> OneAction(ActionPolicy(Actions_[i]))]

\* calls that do not fit the action
Misfits ==
  [ OneAction(ActionPolicy(<<PublishC(Id("x"), Id("y"))>>)) EXCEPT
      !.calls = {ActionCall("action", "do", <<N(0)>>), ActionCall("action", "do", <<N(0), B(TRUE)>>),
                 ActionCall("action", "nope", <<>>)} ]

\* a command with an optional field
CommandD ==
  [ CommandC(<<If_(<<<<<<"Is", <<"Dot", Id("this"), "o">>, TRUE>>,
                       <<Let_("r", <<"Unwrap", <<"Dot", Id("this"), "o">>>>)>>>>>>,
                   <<<<Let_("r", N(0))>>>>), EmitR>>, <<>>)
      EXCEPT !.name = "D", !.fields = <<<<"o", TOptional(TInt)>>>> ]
Optional_ ==
  OneAction(Policy_(<<CommandD>>, <<[name |-> "do", arguments |-> XY, statements |->
    <<<<"Publish", New("D", <<<<"o", <<"If", IsPositive(Id("x")), <<"Some", Id("y")>>,
                                        <<"None">>>>>>>>)>>>>]>>))

(***************************************************************************)
(* Graphs: created by an action or by a command that arrives, then used.   *)
(***************************************************************************)
\* The command C as a device has sealed it.
Sealed(at_head, x, y) ==
  LET payload == <<"Bytes", Struct("C", [x |-> N(x), y |-> N(y)])>>
  IN [variant |-> IF at_head = NoId THEN "Init" ELSE "Basic", name |-> "C", parent |-> at_head,
      author |-> Author, id |-> HashId(at_head, Author, payload), payload |-> payload,
      signature |-> <<"Bytes", <<"LOL">>>>]

Arrives(c) == [kind |-> "add", command |-> c]

NewGraphs ==
  [ policy |-> ActionPolicy(<<Check_(IsPositive(Id("x"))), PublishC(Id("x"), Id("y")),
                              If_(<<<<IsPositive(Id("y")), <<PublishC(Id("y"), Id("x"))>>>>>>, <<>>)>>),
    calls |-> {ActionCall(kind, "do", <<N(x), N(y)>>) :
                 kind \in {"new_graph", "action"}, x \in {0, 2}, y \in {0, 1}}
                \cup {Arrives(Sealed(NoId, 1, 1))},
    bound |-> 3, starts |-> {[facts |-> {}, head |-> NoId]} ]

(***************************************************************************)
(* Branches: two commands on one head that may get in each other's way,    *)
(* merged in any order.  x is the fact a command needs, y the one it       *)
(* creates.                                                                *)
(***************************************************************************)
Needs == Check_(<<"Not", <<"Exists", KeyLit("F", <<<<"k", X>>>>)>>>>)
Branching(recall_block) ==
  [ policy |-> Policy_(<<CommandC(<<Needs, Finish_(<<<<"Create", FactF(Y, X)>>, EmitInt(Y)>>)>>,
                                  recall_block)>>, <<Do>>),
    calls |-> {Arrives(Sealed(Head0, 0, 1)), Arrives(Sealed(Head0, 1, 0)), Arrives(Sealed(Head0, 2, 2)),
               [kind |-> "commit"]},
    bound |-> 3,
    starts |-> {[facts |-> db, head |-> Head0] : db \in {{}, {F_(IntMax, 1)}}} ]

BranchPrograms ==
  << Branching(<<>>),
     Branching(<<Finish_(<<<<"Create", FactF(N(2), Y)>>, EmitInt(X)>>)>>),
     Branching(<<Check_(IsPositive(X)), Finish_(<<EmitInt(X)>>)>>),
     Branching(<<Let_("f", <<"Unwrap", FoundF(Y)>>), Finish_(<<EmitInt(X)>>)>>),
     Branching(<<Let_("r", Op("Subtract", X, Op("Add", Y, N(2)))), EmitR>>) >>

\* commands that do not fit the policy
Strange ==
  LET payload == <<"Bytes", Struct("C", [x |-> N(0)])>>
      short == [Sealed(Head0, 0, 0) EXCEPT !.payload = payload]
      unknown == [Sealed(Head0, 0, 0) EXCEPT !.name = "X"]
      other == [Sealed(Head0, 0, 0) EXCEPT !.payload = <<"Bytes", Struct("S", [a |-> N(0)])>>]
  IN [Branching(<<>>) EXCEPT !.calls = {Arrives(c) : c \in {short, unknown, other}}]

(***************************************************************************)
(* Sessions: the action publishes one or two commands, the second of which *)
(* may fail.                                                               *)
(***************************************************************************)
Session_ ==
  [ policy |-> [ActionPolicy(<<PublishC(Id("x"), Id("y")),
                               If_(<<<<IsPositive(Id("y")), <<PublishC(Id("y"), Id("x"))>>>>>>, <<>>)>>)
                  EXCEPT !.commands = <<CommandC(<<Needs>> \o StoreXY, <<>>)>>],
    calls |-> {ActionCall("send", "do", <<N(0), N(0)>>), ActionCall("send", "do", <<N(1), N(1)>>),
               ActionCall("send", "do", <<N(1), N(2)>>), [kind |-> "receive"],
               [kind |-> "session", peer |-> 1], [kind |-> "session", peer |-> 2],
               ActionCall("action", "do", <<N(0), N(0)>>)},
    bound |-> 6, starts |-> {[facts |-> {}, head |-> Head0]} ]

\* an action without arguments, which validate has nothing to say about
NoArguments ==
  [ policy |-> Policy_(<<CommandC(StoreXY, <<>>)>>,
      <<[name |-> "go", arguments |-> <<>>, statements |->
           <<If_(<<<<<<"Exists", FactF(N(0), Bind)>>, <<Let_("r", N(2))>>>>>>, <<<<Let_("r", N(1))>>>>),
             PublishC(Id("r"), Id("one"))>>]>>),
    calls |-> {ActionCall("action", "go", <<>>)}, bound |-> 2, starts |-> Graphs_ ]

\* function down(n int) int { if n > 0 { return down(n - 1) } return one }
Down ==
  [ name |-> "down", arguments |-> <<<<"n", TInt>>>>, return_type |-> TInt,
    statements |->
      << If_(<<<<IsPositive(Id("n")),
                 <<<<"Return", <<"FunctionCall", "down", <<Op("Subtract", Id("n"), N(1))>>>>>>>>>>>>, <<>>),
         <<"Return", Id("one")>> >> ]

\* function again(n int) int { return again(n) }
Again ==
  [ name |-> "again", arguments |-> <<<<"n", TInt>>>>, return_type |-> TInt,
    statements |-> <<<<"Return", <<"FunctionCall", "again", <<Id("n")>>>>>>>> ]

\* recursion that ends, and recursion that need not
RecursionPrograms ==
  LET block == <<Let_("r", Op("Add", Y, <<"FunctionCall", "down", <<X>>>>)), EmitR>>
      endless == <<Check_(IsPositive(X)), Let_("r", <<"FunctionCall", "again", <<X>>>>), EmitR>>
      calling(b) == [BlockPolicy(b) EXCEPT !.functions = @ \o <<Down, Again>>]
  IN <<OneAction(calling(block)), OneAction(calling(endless))>>

MCPrograms ==
  ExprPrograms \o BlockPrograms \o SealPrograms \o ActionPrograms \o BranchPrograms
    \o RecursionPrograms
    \o <<NoDebug, Misfits, Optional_, NewGraphs, Strange, Session_, NoArguments>>

(***************************************************************************)
(* Properties.                                                             *)
(***************************************************************************)
\* What a call may leave behind, from the source text and the state before it.
Rule(c, with_recall, db, sent) == RuleOutcome(Program.policy, c, with_recall, db, sent)
Acts(base, on_graph) ==
  ActionOutcome(Program.policy, call.name, call.args, base.facts, base.head, on_graph)

Ended(ok, o, left) == left @@ [delivered |-> IF ok THEN o.effects ELSE <<>>]

GraphOutcome(o) ==
  Ended(o.result = "Ok", o,
    [before EXCEPT !.store = IF o.result = "Ok" THEN [facts |-> o.db, head |-> o.head] ELSE @])

AddOutcome(o) ==
  LET c == call.command
      ok == o.result = "Ok"
      first == c.variant = "Init"
  IN Ended(ok, o,
       [before EXCEPT !.store = IF ok /\ first THEN [facts |-> o.db, head |-> c.id] ELSE @,
                      !.heads = IF ok /\ ~first THEN @ \cup {[command |-> c, facts |-> o.db]} ELSE @])

\* a before b in the braid: a check runs the recall block and goes on
GoesOn(o) == o.result \in {"Ok", "Check"}
Merged(ok, o) ==
  LET id == <<"Id", <<"merge", {b.command.id : b \in before.heads}>>>>
  IN Ended(ok, o, [before EXCEPT !.heads = {},
                                 !.store = IF ok THEN [facts |-> o.db, head |-> id] ELSE @])
AfterFirst(b, one) ==
  IF GoesOn(one) THEN LET two == Rule(b.command, TRUE, one.db, one.effects) IN Merged(GoesOn(two), two)
  ELSE Merged(FALSE, one)
BraidOutcome(a, b) == AfterFirst(b, Rule(a.command, TRUE, before.store.facts, <<>>))

SendOutcome(o) ==
  LET ok == o.result = "Ok"
  IN Ended(ok, o, [before EXCEPT !.sessions[1].head = o.head,
                                 !.sessions[1].facts = IF ok THEN o.db ELSE @,
                                 !.wire = IF ok THEN @ \o o.added ELSE @])

ReceiveOutcome(o) ==
  LET ok == o.result = "Ok"
  IN Ended(ok, o, [before EXCEPT !.sessions[2].facts = IF ok THEN o.db ELSE @])

Outcomes ==
  CASE call.kind \in {"new_graph", "action"} -> {GraphOutcome(Acts(before.store, TRUE))}
    [] call.kind = "add" -> {AddOutcome(Rule(call.command, FALSE, before.store.facts, <<>>))}
    [] call.kind = "commit" ->
         {BraidOutcome(ab[1], ab[2]) : ab \in {ab \in before.heads \X before.heads : ab[1] # ab[2]}}
    [] call.kind = "send" -> {SendOutcome(Acts(before.sessions[1], FALSE))}
    [] call.kind = "receive" ->
         {ReceiveOutcome(Rule(wire[Last(received)], FALSE, before.sessions[2].facts, <<>>))}

\* A call on a graph whose action publishes two commands or more that the policy accepts.
PublishesMore ==
  call.kind \in {"new_graph", "action"} /\ Len(Acts(before.store, TRUE).added) > 1

\* A call leaves exactly what the source text of the policy says: the facts, the commands
\* on the graph or on the wire, and the effects that are delivered.  A call that fails
\* leaves what there was before, but the head of a session stays where the action came to.
\* Compiler, machine and VmPolicy together mean the policy, with one exception: call_action
\* gives all the commands of an action the same parent, so an action that publishes two
\* commands on a graph fails and leaves what there was before, whatever its text says.
RunsAsWritten ==
  phase = "Idle" /\ call # NoCall =>
    LET left == Snapshot @@ [delivered |-> delivered]
    IN IF PublishesMore THEN left = before @@ [delivered |-> <<>>] ELSE left \in Outcomes

\* The labels the tracer finds nothing wrong with.
Clean ==
  [i \in DOMAIN Programs |->
     IF Failed(Compiled[i]) THEN {}
     ELSE {l \in DOMAIN Compiled[i].labels : Trace(Compiled[i], l) = {}}] \o <<>>

RunLabel ==
  CASE phase = "Action" -> Label(call.name, "Action")
    [] phase = "Seal" -> Label(command.name, "CommandSeal")
    [] phase = "Open" -> Label(command.name, "CommandOpen")
    [] phase = "Policy" -> Label(command.name, "CommandPolicy")
    [] phase = "Recall" -> Label(command.name, "CommandRecall")

Running == phase \in {"Action", "Seal", "Open", "Policy", "Recall"}

\* the Exit of a finish statement, which comes after the End of its scope
InFinish == machine.progmem[pc] = <<"End">>

\* What the tracer lets pass does not go wrong: a run of an action or of a block of a
\* command without a failure never reads a variable that is not set nor sets one twice, and
\* a policy or recall block ends normally only by a finish statement.  Nothing is said of
\* functions, for which FunctionAnalyzer takes the return of a function that is called for
\* one of the caller.
TracerSound ==
  Running /\ Stopped /\ RunLabel \in Clean[policy] =>
    /\ status \notin {<<"Error", "NotDefined">>, <<"Error", "AlreadyDefined">>}
    /\ phase \in {"Policy", "Recall"} /\ Exited("Normal") => InFinish

\* The code of a policy uses the machine in balance: a block that ends normally leaves one
\* value on the stack if it is a seal or open block and none if it is an action or a policy
\* block, no call, no running query and no inner scope; and no run of compiled code takes
\* from an empty stack, leaves the program or meets a target that is not resolved.  Nothing
\* is said of the stack after a recall block, which runs on top of what the policy block
\* left when its check failed.
MachineBalanced ==
  /\ Running /\ Exited("Normal") =>
       /\ phase \in {"Action", "Policy"} => stack = <<>>
       /\ phase \in {"Seal", "Open"} => Len(stack) = 1
       /\ call_state = <<>> /\ query_iter_stack = <<>>
       /\ Len(locals) = 1 /\ Len(locals[1]) = 1
  /\ status \notin {<<"Error", e>> : e \in {"StackUnderflow", "StackOverflow", "InvalidAddress",
                                           "UnresolvedTarget", "BadState"}}

\* A policy block that ends in a check has changed nothing.  make_braid_segment relies on
\* it: it goes on after a check and reverts neither facts nor effects.
CheckedLeavesNoTrace ==
  phase = "Policy" /\ Exited("Check") => facts = rule.facts /\ effects = rule.effects

\* A function calls functions ever deeper, for which compiler and machine have no limit.
CallsWithoutEnd == Len(call_state) = MaxCalls

\* Every call returns to the client, unless its policy calls functions without end: a run
\* is in no other loop, and compile_function registers a function before it compiles the
\* body, so the compiler accepts one that calls itself.
EveryCallReturns == []<>(phase = "Idle" \/ CallsWithoutEnd)

\* A peer that has received all the messages of a session in order, and started from the
\* same graph, has the same facts as the sender, also after actions that failed half way.
SessionsAgree ==
  /\ phase = "Idle" /\ NoSession \notin Range(sessions)
  /\ sessions[1].base = sessions[2].base
  /\ received = [i \in DOMAIN wire |-> i]
  => sessions[1].facts = sessions[2].facts

=============================================================================
