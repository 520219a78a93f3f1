--------------------------- MODULE PolicySemantics ---------------------------
(***************************************************************************)
(* What a policy means, read off its source text alone: the value of an    *)
(* expression and the outcome of statements, without instructions, stack   *)
(* or labels.  The compiled policy on the machine is compared with this.   *)
(*                                                                         *)
(* An expression has a value, or ends the run: <<"Exit", reason>> or       *)
(* <<"Error">>.  env is [p, vars, db, ctx]: the policy, the variables, the *)
(* facts and the context.                                                  *)
(***************************************************************************)
EXTENDS PolicyValues

Stops(r) == r[1] \in {"Exit", "Error"}
Error == <<"Error">>
Guarded(ok, r) == IF ok THEN r ELSE Error

Find(defs, name) == defs[CHOOSE i \in DOMAIN defs : defs[i].name = name]

\* The first of these results that ends the run, or Error when none does.
FirstStop(results) ==
  IF \E i \in DOMAIN results : Stops(results[i])
  THEN results[CHOOSE i \in DOMAIN results :
                 Stops(results[i]) /\ \A j \in 1..i - 1 : ~Stops(results[j])]
  ELSE Error

Binary(op, a, b) ==
  LET ints == Is(a, "Int") /\ Is(b, "Int")
      bools == Is(a, "Bool") /\ Is(b, "Bool")
  IN CASE op = "Add" -> Guarded(ints /\ InRange(a[2] + b[2]), Int_(a[2] + b[2]))
       [] op = "Subtract" -> Guarded(ints /\ InRange(a[2] - b[2]), Int_(a[2] - b[2]))
       [] op = "And" -> Guarded(bools, Bool_(a[2] /\ b[2]))
       [] op = "Or" -> Guarded(bools, Bool_(a[2] \/ b[2]))
       [] op = "Equal" -> Bool_(a = b)
       [] op = "NotEqual" -> Bool_(a # b)
       [] op = "GreaterThan" -> Guarded(ints, Bool_(a[2] > b[2]))
       [] op = "LessThan" -> Guarded(ints, Bool_(a[2] < b[2]))
       [] op = "GreaterThanOrEqual" -> Guarded(ints, Bool_(a[2] >= b[2]))
       [] op = "LessThanOrEqual" -> Guarded(ints, Bool_(a[2] <= b[2]))

\* The names of the fields of a struct, an effect, a command or a fact.
FieldNames(p, name) ==
  LET facts_as_structs ==
        [i \in DOMAIN p.facts |-> [name |-> p.facts[i].name,
                                   fields |-> p.facts[i].key \o p.facts[i].value]]
      foreign == FlattenSeq([i \in DOMAIN p.ffi |-> p.ffi[i].structs])
      def == Find(p.effects \o p.structs \o foreign \o p.commands \o facts_as_structs, name)
  IN {def.fields[i][1] : i \in DOMAIN def.fields}

Complete(p, v) == Is(v, "Struct") /\ DOMAIN v[3] = FieldNames(p, v[2])

BinaryOps ==
  {"Add", "Subtract", "And", "Or", "Equal", "NotEqual", "GreaterThan", "LessThan",
   "GreaterThanOrEqual", "LessThanOrEqual"}

\* The facts that agree with every field of a literal that is given, in key order.
Given(fields, values) ==
  SelectSeq([i \in DOMAIN fields |-> <<fields[i][1], values[i]>>], LAMBDA f : f[2] # Bind)

Agrees(f, keys, values) ==
  /\ \A i \in DOMAIN keys : \E j \in DOMAIN f[2] : f[2][j] = keys[i]
  /\ \A i \in DOMAIN values : \E j \in DOMAIN f[3] : f[3][j] = values[i]

Found(db, name, keys, values) ==
  SetToSortSeq({f \in db : f[1] = name /\ Agrees(f, keys, values)},
               LAMBDA f, g : KeyLess(f[2], g[2]))

AnyStops(results) == \E i \in DOMAIN results : Stops(results[i])

\* the keys and values a literal gives, or the stop of one of its fields
Literal(fact, ks, vs) ==
  IF AnyStops(ks \o vs) THEN FirstStop(ks \o vs)
  ELSE <<"Literal", Given(fact.keys, ks), Given(fact.values, vs)>>

\* a struct of these fields and values
Built(names, name, fields, vs) ==
  IF AnyStops(vs) THEN FirstStop(vs)
  ELSE IF \E i \in DOMAIN fields : fields[i][1] \notin names THEN Error
  ELSE Struct(name, FieldsOf([i \in DOMAIN vs |-> <<fields[i][1], vs[i]>>]))

Counted(cmp, limit, n) ==
  CASE cmp = "UpTo" -> Int_(Min({n, limit}))
    [] cmp = "AtLeast" -> Bool_(n >= limit)
    [] cmp = "AtMost" -> Bool_(n <= limit)
    [] cmp = "Exactly" -> Bool_(n = limit)

\* what a query is asked for, from the facts found
Answer(e, found) ==
  CASE e[1] = "Query" -> IF found = <<>> THEN None_ ELSE AsStruct(e[2].name, found[1])
    [] e[1] = "Exists" -> Bool_(found # <<>>)
    [] e[1] = "FactCount" -> Counted(e[2], e[3], Len(found))

Queried(env, e, fact, lit) ==
  IF Stops(lit) THEN lit ELSE Answer(e, Found(env.db, fact.name, lit[2], lit[3]))

\* External: the envelope module
Foreign_(env, name, x) ==
  IF Stops(x) THEN x
  ELSE IF name = "open" THEN x[3].payload
  ELSE Guarded(env.ctx.kind = "Seal",
         Envelope(env.ctx.id, Author, HashId(env.ctx.id, Author, x), x, <<"Bytes", <<"LOL">>>>))

RECURSIVE Eval(_, _)
RECURSIVE CallFunction(_, _, _)

\* the fields of a literal, with their values
EvalFields(env, fields) ==
  [i \in DOMAIN fields |-> IF fields[i][2] = Bind THEN Bind ELSE Eval(env, fields[i][2])]

EvalAll(env, exprs) == [i \in DOMAIN exprs |-> Eval(env, exprs[i])]

EvalLiteral(env, fact) ==
  Literal(fact, EvalFields(env, fact.keys),
          IF fact.valued THEN EvalFields(env, fact.values) ELSE <<>>)

Eval(env, e) ==
  LET a == Eval(env, e[2])
      b == Eval(env, e[3])
  IN CASE e[1] \in {"Int", "String", "Bool", "None"} -> e
       [] e[1] = "Some" -> a
       [] e[1] = "Identifier" ->
            IF e[2] \in DOMAIN env.vars THEN env.vars[e[2]]
            ELSE LET globals == {i \in DOMAIN env.p.global_lets : env.p.global_lets[i][1] = e[2]}
                 IN IF globals = {} THEN Error
                    ELSE Eval(env, env.p.global_lets[Min(globals)][2])
       [] e[1] = "EnumReference" -> <<"Enum", e[2], e[3]>>
       [] e[1] = "NamedStruct" ->
            Built(FieldNames(env.p, e[2]), e[2], e[3],
                  EvalAll(env, [i \in DOMAIN e[3] |-> e[3][i][2]]))
       [] e[1] = "Dot" ->
            IF Stops(a) THEN a ELSE Guarded(Is(a, "Struct") /\ e[3] \in DOMAIN a[3], a[3][e[3]])
       [] e[1] \in BinaryOps ->
            IF Stops(a) THEN a ELSE IF Stops(b) THEN b ELSE Binary(e[1], a, b)
       [] e[1] = "Negative" ->
            IF Stops(a) THEN a ELSE Guarded(Is(a, "Int") /\ InRange(-a[2]), Int_(-a[2]))
       [] e[1] = "Not" -> IF Stops(a) THEN a ELSE Guarded(Is(a, "Bool"), Bool_(~a[2]))
       [] e[1] = "Unwrap" -> IF a = None_ THEN <<"Exit", "Panic">> ELSE a
       [] e[1] = "CheckUnwrap" -> IF a = None_ THEN <<"Exit", "Check">> ELSE a
       [] e[1] = "Is" -> IF Stops(a) THEN a ELSE Bool_((a = None_) # e[3])
       [] e[1] = "If" ->
            IF Stops(a) THEN a ELSE IF ~Is(a, "Bool") THEN Error
            ELSE IF a[2] THEN b ELSE Eval(env, e[4])
       [] e[1] \in {"Query", "Exists"} -> Queried(env, e, e[2], EvalLiteral(env, e[2]))
       [] e[1] = "FactCount" -> Queried(env, e, e[4], EvalLiteral(env, e[4]))
       [] e[1] = "FunctionCall" ->
            CallFunction(env, Find(env.p.functions, e[2]), EvalAll(env, e[3]))
       [] e[1] = "Serialize" ->
            IF Stops(a) THEN a
            ELSE Guarded(env.ctx.kind = "Seal" /\ Is(a, "Struct") /\ a[2] = env.ctx.name,
                         <<"Bytes", a>>)
       [] e[1] = "Deserialize" ->
            IF Stops(a) THEN a
            ELSE Guarded(env.ctx.kind = "Open" /\ Is(a, "Bytes") /\ a[2][2] = env.ctx.name, a[2])
       [] e[1] = "ForeignFunctionCall" ->
            Foreign_(env, e[3], Eval(env, e[4][1]))

(***************************************************************************)
(* Statements.  st is [vars, db, effects, published, out]; out is          *)
(* <<"Next">> while they run on, or how they ended: <<"Return", value>>,   *)
(* <<"Exit", reason>>, <<"Error">>.                                        *)
(***************************************************************************)
Start(vars, db, sent) ==
  [vars |-> vars, db |-> db, effects |-> sent, published |-> <<>>, out |-> <<"Next">>]

End_(st, out) == [st EXCEPT !.out = out]

RECURSIVE Exec(_, _, _, _)
RECURSIVE ExecMap(_, _, _, _, _)

\* the variables of a call: the arguments alone
Bound(arguments, values) ==
  FieldsOf([i \in DOMAIN arguments |-> <<arguments[i][1], values[i]>>])

FunctionResult(st) ==
  CASE st.out[1] = "Return" -> st.out[2]
    [] st.out[1] = "Next" -> <<"Exit", "Panic">>
    [] OTHER -> st.out

CallFunction(env, f, values) ==
  IF AnyStops(values) THEN FirstStop(values)
  ELSE FunctionResult(Exec(env.p, env.ctx, Start(Bound(f.arguments, values), env.db, <<>>),
                           f.statements))

\* the first of these that is taken, 0 if none is
First(taken) == IF taken = {} THEN 0 ELSE Min(taken)

\* the body of a match: the first arm one of whose values is the matched one
ArmOf(env, arms, v) ==
  First({i \in DOMAIN arms :
           arms[i].default \/ \E j \in DOMAIN arms[i].values : Eval(env, arms[i].values[j]) = v})

\* the first branch whose condition is not false, and its condition
BranchOf(conditions) == First({j \in DOMAIN conditions : conditions[j] # Bool_(FALSE)})

ExecBranch(env, st, s, conditions, j) ==
  IF j = 0 THEN IF s[3] = <<>> THEN st ELSE Exec(env.p, env.ctx, st, s[3][1])
  ELSE IF Stops(conditions[j]) THEN End_(st, conditions[j])
  ELSE IF ~Is(conditions[j], "Bool") THEN End_(st, Error)
  ELSE Exec(env.p, env.ctx, st, s[2][j][2])

ExecIf(env, st, s, conditions) == ExecBranch(env, st, s, conditions, BranchOf(conditions))

ExecArm(env, st, s, v, arm) ==
  IF Stops(v) THEN End_(st, v)
  ELSE IF arm = 0 THEN End_(st, <<"Exit", "Panic">>)
  ELSE Exec(env.p, env.ctx, st, s[3][arm].body)

ExecUpdate(st, s, lit, new, found) ==
  IF Stops(lit) THEN End_(st, lit)
  ELSE IF AnyStops(new) THEN End_(st, FirstStop(new))
  ELSE IF found = <<>> THEN End_(st, Error)
  ELSE [st EXCEPT !.db = FactInsert(FactDelete(@, s[2].name, found[1][2]),
                                    s[2].name, lit[2], Given(s[3], new))]

ExecCall(env, st, f, vs) ==
  IF AnyStops(vs) THEN End_(st, FirstStop(vs))
  ELSE [Exec(env.p, env.ctx, [st EXCEPT !.vars = Bound(f.arguments, vs)], f.statements)
          EXCEPT !.vars = st.vars]

\* s, where v is the value of its expression and lit that of its fact literal
ExecWith(env, st, s, v, lit) ==
  LET p == env.p
      context == env.ctx
  IN CASE s[1] = "Let" ->
            IF Stops(v) THEN End_(st, v)
            ELSE IF s[2] \in DOMAIN st.vars THEN End_(st, Error)
            ELSE [st EXCEPT !.vars = SetField(@, s[2], v)]
       [] s[1] \in {"Check", "DebugAssert"} ->
            IF s[1] = "DebugAssert" /\ ~p.debug THEN st
            ELSE IF Stops(v) THEN End_(st, v)
            ELSE IF ~Is(v, "Bool") THEN End_(st, Error)
            ELSE IF v[2] THEN st
            ELSE End_(st, <<"Exit", IF s[1] = "Check" THEN "Check" ELSE "Panic">>)
       [] s[1] = "Match" ->
            ExecArm(env, st, s, v, ArmOf(env, s[3], v))
       [] s[1] = "If" ->
            ExecIf(env, st, s, [j \in DOMAIN s[2] |-> Eval(env, s[2][j][1])])
       [] s[1] = "Publish" ->
            IF Stops(v) THEN End_(st, v)
            ELSE IF ~Complete(p, v) THEN End_(st, Error)
            ELSE [st EXCEPT !.published = Append(@, v)]
       [] s[1] = "Return" -> IF Stops(v) THEN End_(st, v) ELSE End_(st, <<"Return", v>>)
       [] s[1] = "Finish" ->
            LET done == Exec(p, context, st, s[2])
            IN IF done.out = <<"Next">> THEN End_(done, <<"Exit", "Normal">>) ELSE done
       [] s[1] = "Map" ->
            IF Stops(lit) THEN End_(st, lit)
            ELSE ExecMap(p, context, st, s, Found(st.db, s[2].name, lit[2], <<>>))
       [] s[1] \in {"Create", "Delete"} ->
            IF Stops(lit) THEN End_(st, lit)
            ELSE IF s[1] = "Create"
            THEN [st EXCEPT !.db = FactInsert(@, s[2].name, lit[2], lit[3])]
            ELSE [st EXCEPT !.db = FactDelete(@, s[2].name, lit[2])]
       [] s[1] = "Update" ->
            ExecUpdate(st, s, lit, EvalFields(env, s[3]), Found(st.db, s[2].name, lit[2], <<>>))
       [] s[1] = "Emit" ->
            IF Stops(v) THEN End_(st, v)
            ELSE IF ~Complete(p, v) THEN End_(st, Error)
            ELSE [st EXCEPT !.effects = Append(@, [data |-> v, command |-> context.id,
                                                   recalled |-> context.kind = "Recall"])]
       [] s[1] \in {"FunctionCall", "ActionCall"} ->
            ExecCall(env, st, Find(IF s[1] = "ActionCall" THEN p.actions ELSE p.finish_functions, s[2]),
                     EvalAll(env, s[3]))

HasLiteral == {"Map", "Create", "Delete", "Update"}

\* the expression of a statement, when it has one
ExprOf(s) ==
  CASE s[1] = "Let" -> s[3]
    [] s[1] \in {"Check", "DebugAssert", "Match", "Publish", "Return", "Emit"} -> s[2]
    [] OTHER -> None_

ExecStatement(p, context, st, s) ==
  LET env == [p |-> p, vars |-> st.vars, db |-> st.db, ctx |-> context]
  IN ExecWith(env, st, s, Eval(env, ExprOf(s)),
              IF s[1] \in HasLiteral THEN EvalLiteral(env, s[2]) ELSE None_)

Exec(p, context, st, statements) ==
  IF statements = <<>> \/ st.out # <<"Next">> THEN st
  ELSE Exec(p, context, ExecStatement(p, context, st, Head(statements)), Tail(statements))

\* once for every fact found, each time in a scope of its own
ExecMap(p, context, st, s, found) ==
  IF found = <<>> \/ st.out # <<"Next">> THEN st
  ELSE LET vars == SetField(st.vars, s[3], AsStruct(s[3], Head(found)))
           done == Exec(p, context, [st EXCEPT !.vars = vars], s[4])
       IN ExecMap(p, context, [done EXCEPT !.vars = st.vars], s, Tail(found))

(***************************************************************************)
(* Calls.  The outcome of a call is [result, db, effects, added, head]: a  *)
(* policy that is run on the facts db.                                     *)
(***************************************************************************)
ResultOf(out, check, panic) ==
  CASE out[1] \in {"Next", "Return"} \/ out = <<"Exit", "Normal">> -> "Ok"
    [] out = <<"Exit", "Check">> -> check
    [] out = <<"Exit", "Panic">> -> panic
    [] OTHER -> "InternalError"

\* a seal or open block, a function of one argument
CallBlock(p, context, db, statements, argument, value) ==
  CallFunction([p |-> p, vars |-> <<>>, db |-> db, ctx |-> context],
               [arguments |-> <<<<argument>>>>, statements |-> statements], <<value>>)

Described(p, c, this) ==
  LET fields == Find(p.commands, c.name).fields
  IN /\ Is(this, "Struct")
     /\ DOMAIN this[3] = {fields[i][1] : i \in DOMAIN fields}
     /\ \A i \in DOMAIN fields : FitsType(this[3][fields[i][1]], fields[i][2])

Outcome(res, of) == [result |-> res, db |-> of.db, effects |-> of.effects]

\* the end of a recall block, and that of a policy block
Recalled(back) ==
  Outcome(IF ResultOf(back.out, "Check", "Panic") \in {"Ok", "Check"} THEN "Check" ELSE "Panic", back)

Ran(p, c, vars, with_recall, st) ==
  IF st.out # <<"Exit", "Check">> \/ ~with_recall
  THEN Outcome(ResultOf(st.out, "Check", "Panic"), st)
  ELSE Recalled(Exec(p, [kind |-> "Recall", name |-> c.name, id |-> c.id],
                     Start(vars, st.db, st.effects), Find(p.commands, c.name).recall))

\* a command that was opened
RunRule(p, c, with_recall, envelope, db, sent, this) ==
  LET vars == [this |-> Struct(c.name, this[3]), envelope |-> envelope]
  IN IF Stops(this) THEN Outcome(ResultOf(this, "Check", "Check"), Start(<<>>, db, sent))
     ELSE IF ~Described(p, c, this) THEN Outcome("InternalError", Start(<<>>, db, sent))
     ELSE Ran(p, c, vars, with_recall,
              Exec(p, [kind |-> "Policy", name |-> c.name, id |-> c.id], Start(vars, db, sent),
                   Find(p.commands, c.name).policy))

\* a command: open it, run its policy block, and its recall block if that checks
RuleOutcome(p, c, with_recall, db, sent) ==
  LET envelope == Envelope(IF c.variant = "Init" THEN NoId ELSE c.parent,
                           c.author, c.id, c.payload, c.signature)
  IN IF \A i \in DOMAIN p.commands : p.commands[i].name # c.name
     THEN Outcome("InternalError", Start(<<>>, db, sent))
     ELSE RunRule(p, c, with_recall, envelope, db, sent,
                  CallBlock(p, [kind |-> "Open", name |-> c.name], db,
                            Find(p.commands, c.name).open, "envelope", envelope))

(***************************************************************************)
(* The published commands one after the other, up to the first that is     *)
(* refused.  On a graph each is the child of the one before it, and the    *)
(* first one of a new graph has no parent; in a session, which has no      *)
(* order, all have the head at the start of the action as parent.  acc is  *)
(* [result, db, effects, added, head].                                     *)
(***************************************************************************)
Published(acc, c, done) ==
  IF done.result # "Ok" THEN [acc EXCEPT !.result = done.result]
  ELSE [acc EXCEPT !.db = done.db, !.effects = done.effects, !.added = Append(@, c), !.head = c.id]

PublishOne(p, name, parent_id, acc, sealed) ==
  LET c == [variant |-> IF parent_id = NoId THEN "Init" ELSE "Basic", name |-> name,
            parent |-> parent_id, author |-> sealed[3].author_id, id |-> sealed[3].command_id,
            payload |-> sealed[3].payload, signature |-> sealed[3].signature]
  IN IF Stops(sealed) THEN [acc EXCEPT !.result = ResultOf(sealed, "Check", "Panic")]
     ELSE Published(acc, c, RuleOutcome(p, c, FALSE, acc.db, acc.effects))

RECURSIVE PublishOutcome(_, _, _, _, _)
PublishOutcome(p, published, at_head, on_graph, acc) ==
  IF published = <<>> \/ acc.result # "Ok" THEN acc
  ELSE LET s == Head(published)
           parent_id == IF on_graph THEN acc.head ELSE at_head
       IN PublishOutcome(p, Tail(published), at_head, on_graph,
            PublishOne(p, s[2], parent_id, acc,
              CallBlock(p, [kind |-> "Seal", name |-> s[2], id |-> parent_id], acc.db,
                        Find(p.commands, s[2]).seal, "this", s)))

\* an action whose statements ended in st
Acted(p, at_head, on_graph, acc, st) ==
  IF ResultOf(st.out, "Check", "Panic") # "Ok"
  THEN [acc EXCEPT !.result = ResultOf(st.out, "Check", "Panic")]
  ELSE PublishOutcome(p, st.published, at_head, on_graph, acc)

ActionOutcome(p, name, args, db, at_head, on_graph) ==
  LET known == \E i \in DOMAIN p.actions : p.actions[i].name = name
      def == Find(p.actions, name)
      fits == /\ Len(args) = Len(def.arguments)
              /\ \A i \in DOMAIN args : FitsType(args[i], def.arguments[i][2])
      acc == [result |-> "Ok", db |-> db, effects |-> <<>>, added |-> <<>>, head |-> at_head]
  IN IF ~known THEN [acc EXCEPT !.result = "InternalError"]
     ELSE IF ~fits THEN [acc EXCEPT !.result = "InternalError"]
     ELSE Acted(p, at_head, on_graph, acc,
                Exec(p, [kind |-> "Action"], Start(Bound(def.arguments, args), db, <<>>),
                     def.statements))

=============================================================================
