--------------------------- MODULE PolicyCompiler ---------------------------
(***************************************************************************)
(* The policy compiler (aranya-policy-compiler: compile.rs and             *)
(* compile/types.rs): a policy is turned into instructions, labels and     *)
(* schemas.                                                                *)
(*                                                                         *)
(* The compile state `cs' is passed along; once cs.err is not "" nothing   *)
(* more is compiled.  Program addresses start at 0: the instruction at     *)
(* address a is cs.progmem[a + 1], and the write pointer is the length of  *)
(* the program.  Source positions are left out.                            *)
(*                                                                         *)
(* An expression or statement is a tuple whose first element is its        *)
(* variant.  A fact literal is a record [name, keys, values, valued]: a    *)
(* field is <<identifier, expression>> or <<identifier, <<"Bind">>>>, and  *)
(* valued is FALSE for a literal without a value block.                    *)
(***************************************************************************)
EXTENDS PolicyValues

\* No type is known (Typeish::Indeterminate), and the type error.
Indeterminate == <<"Indeterminate">>
TypeError == <<"TypeError">>

(***************************************************************************)
(* CompileState.                                                           *)
(***************************************************************************)
NewState(source) ==
  [ source |-> source, progmem |-> <<>>, labels |-> <<>>, action_defs |-> <<>>,
    command_defs |-> <<>>, fact_defs |-> <<>>, struct_defs |-> <<>>,
    command_attributes |-> <<>>, globals |-> <<>>, c |-> 0,
    function_signatures |-> <<>>, statement_context |-> <<>>,
    globals_t |-> <<>>, locals |-> <<<<<<>>>>>>, enum_values |-> <<>>, err |-> "" ]

Failed(cs) == cs.err # ""
Fail(cs, err) == IF Failed(cs) THEN cs ELSE [cs EXCEPT !.err = err]
Require(cs, ok, err) == IF ok THEN cs ELSE Fail(cs, err)

Wp(cs) == Len(cs.progmem)

Has(f, key) == key \in DOMAIN f

EnterContext(cs, context) == [cs EXCEPT !.statement_context = Append(@, context)]
ExitContext(cs) == [cs EXCEPT !.statement_context = Front(@)]
Context(cs) == Last(cs.statement_context)

\* anonymous_label: the n-th label from the counter on
Anonymous(cs, n) == <<"Temporary", "anonymous", cs.c + n>>

\* A new entry of one of the tables of the state.
Define(cs, table, key, v) ==
  IF Has(cs[table], key) THEN Fail(cs, "AlreadyDefined")
  ELSE [cs EXCEPT ![table] = @ @@ (key :> v)]

HasDuplicates(seq) == \E i, j \in DOMAIN seq : i < j /\ seq[i] = seq[j]
Names(fields) == [i \in DOMAIN fields |-> fields[i][1]]

(***************************************************************************)
(* IdentifierTypeStack: a name is unique among the blocks of a function;   *)
(* a second definition in one block must have the same type.               *)
(***************************************************************************)
AddIdentifier(cs, name, type) ==
  LET blocks == Last(cs.locals)
      block == Last(blocks)
      clash == block[name] # type /\ block[name] # Indeterminate /\ type # Indeterminate
  IN IF Has(cs.globals_t, name) \/ \E i \in 1..Len(blocks) - 1 : Has(blocks[i], name)
     THEN Fail(cs, "AlreadyDefined")
     ELSE IF Has(block, name)
     THEN Require(cs, ~clash, "InvalidType")
     ELSE [cs EXCEPT !.locals =
             Append(Front(@), Append(Front(blocks), block @@ (name :> type)))]

IdentifierType(cs, name) ==
  LET blocks == Last(cs.locals)
      holders == {i \in DOMAIN blocks : Has(blocks[i], name)}
  IN IF holders # {} THEN blocks[Max(holders)][name]
     ELSE IF Has(cs.globals_t, name) THEN cs.globals_t[name]
     ELSE TypeError

EnterFunction(cs) == [cs EXCEPT !.locals = Append(@, <<<<>>>>)]
ExitFunction(cs) == [cs EXCEPT !.locals = Front(@)]
EnterBlock(cs) == [cs EXCEPT !.locals = Append(Front(@), Append(Last(@), <<>>))]
ExitBlock(cs) == [cs EXCEPT !.locals = Append(Front(@), Front(Last(@)))]

(***************************************************************************)
(* calculate_expression_type.                                              *)
(***************************************************************************)
\* unify_pair, from the two types
Unify(left, right) ==
  IF TypeError \in {left, right} THEN TypeError
  ELSE IF Indeterminate \in {left, right} THEN Indeterminate
  ELSE IF left = right THEN left ELSE TypeError

\* Typeish::map_result with "the type must be `wanted', the result is `out'"
Wants(t, wanted, out) ==
  IF t \in {TypeError, Indeterminate} THEN t
  ELSE IF t = wanted THEN out ELSE TypeError

FieldType(cs, t, field) ==
  IF t \in {TypeError, Indeterminate} THEN t
  ELSE IF t[1] = "Struct" /\ Has(cs.struct_defs, t[2])
          /\ field \in Range(Names(cs.struct_defs[t[2]]))
       THEN LET def == cs.struct_defs[t[2]]
            IN def[CHOOSE i \in DOMAIN def : def[i][1] = field][2]
       ELSE TypeError

\* the functions of that name in the FFI module of that name
Foreign(source, module, name) ==
  {f \in UNION {Range(source.ffi[m].functions) :
                  m \in {m \in DOMAIN source.ffi : source.ffi[m].name = module}} :
     f.name = name}

RECURSIVE ExpressionType(_, _)
ExpressionType(cs, e) ==
  LET T(i) == ExpressionType(cs, e[i])
      Defined(defs, name, t) == IF Has(defs, name) THEN t ELSE TypeError
  IN CASE e[1] \in {"Int", "String", "Bool"} -> <<e[1]>>
       [] e[1] = "None" -> Indeterminate
       [] e[1] = "Some" ->
            IF T(2) \in {TypeError, Indeterminate} THEN T(2) ELSE TOptional(T(2))
       [] e[1] = "NamedStruct" -> Defined(cs.struct_defs, e[2], TStruct(e[2]))
       [] e[1] = "Query" ->
            Defined(cs.fact_defs, e[2].name, TOptional(TStruct(e[2].name)))
       [] e[1] = "Exists" -> TBool
       [] e[1] = "If" ->
            IF Wants(T(2), TBool, TBool) = TypeError THEN TypeError ELSE Unify(T(3), T(4))
       [] e[1] = "Serialize" -> TBytes
       [] e[1] = "Deserialize" -> Indeterminate
       [] e[1] = "FactCount" -> IF e[2] = "UpTo" THEN TInt ELSE TBool
       [] e[1] = "FunctionCall" ->
            IF Has(cs.function_signatures, e[2]) /\ cs.function_signatures[e[2]].color = "Pure"
            THEN cs.function_signatures[e[2]].return_type ELSE TypeError
       [] e[1] = "ForeignFunctionCall" ->
            LET found == Foreign(cs.source, e[2], e[3])
            IN IF found = {} THEN TypeError
               ELSE (CHOOSE f \in found : TRUE).return_type
       [] e[1] = "Identifier" -> IdentifierType(cs, e[2])
       [] e[1] \in {"Add", "Subtract"} -> Wants(Unify(T(2), T(3)), TInt, TInt)
       [] e[1] \in {"And", "Or"} -> Wants(Unify(T(2), T(3)), TBool, TBool)
       [] e[1] = "Dot" -> FieldType(cs, T(2), e[3])
       [] e[1] \in {"Equal", "NotEqual"} ->
            IF Unify(T(2), T(3)) = TypeError THEN TypeError ELSE TBool
       [] e[1] \in {"GreaterThan", "LessThan", "GreaterThanOrEqual", "LessThanOrEqual"} ->
            Wants(Unify(T(2), T(3)), TInt, TBool)
       [] e[1] = "Negative" -> Wants(T(2), TInt, TInt)
       [] e[1] = "Not" -> Wants(T(2), TBool, TBool)
       [] e[1] \in {"Unwrap", "CheckUnwrap", "Is"} ->
            IF T(2) \in {TypeError, Indeterminate} THEN T(2)
            ELSE IF T(2)[1] # "Optional" THEN TypeError
            ELSE IF e[1] = "Is" THEN TBool ELSE T(2)[2]
       [] e[1] = "EnumReference" -> <<"Enum", e[2]>>

Maybe(t, wanted) == t \in {wanted, Indeterminate}

(***************************************************************************)
(* verify_fact_against_schema: keys and values are those of the schema, in *)
(* its order; the type of a literal field is checked, that of any other    *)
(* expression is left to the machine.                                      *)
(***************************************************************************)
RECURSIVE FieldVType(_)
FieldVType(field) ==
  CASE field[1] \in {"Int", "Bool", "String"} -> <<field[1]>>
    [] field[1] = "NamedStruct" -> TStruct(field[2])
    [] field[1] = "Some" ->
         IF FieldVType(field[2]) = NoType THEN NoType ELSE TOptional(FieldVType(field[2]))
    [] OTHER -> NoType

FieldsMatch(fields, schema, types) ==
  /\ Len(fields) = Len(schema)
  /\ \A i \in DOMAIN fields :
       /\ fields[i][1] = schema[i][1]
       /\ LET t == FieldVType(fields[i][2])
          IN t # NoType => t = schema[i][2] /\ (types # {} => t \in types)

FactOk(cs, fact, require_value) ==
  /\ Has(cs.fact_defs, fact.name)
  /\ LET def == cs.fact_defs[fact.name]
     IN /\ FieldsMatch(fact.keys, def.key, {TInt, TBool, <<"String">>, TId})
        /\ IF fact.valued THEN FieldsMatch(fact.values, def.value, {}) ELSE ~require_value

(***************************************************************************)
(* The code of a piece of policy is a sequence of parts.  A part is an     *)
(* atom, which changes the state by itself:                                *)
(*                                                                         *)
(*   <<"Instr", i>>          append_instruction                            *)
(*   <<"Here", label>>       define the label at the write pointer         *)
(*   <<"Labels", n>>         take n anonymous labels                       *)
(*   <<"ExitUnless", r>>     exit with r when the top of the stack is false*)
(*   <<"Var", name, type>>   an identifier of the current block            *)
(*   <<"Enter", c>>, <<"Leave">>                a statement context        *)
(*   <<"Function">>, <<"EndFunction">>          the scope of a function    *)
(*   <<"Block">>, <<"EndBlock">>                a block scope              *)
(*   <<"Require", ok, err>>  fail unless ok                                *)
(*   <<"MustReturn", from>>  fail unless a Return was appended             *)
(*   <<"Define", table, key, value>>                                       *)
(*                                                                         *)
(* or a piece of policy that is replaced by parts when its turn comes.     *)
(***************************************************************************)
I(instr) == <<"Instr", instr>>
Here(label) == <<"Here", label>>
Var(name, type) == <<"Var", name, type>>
Must(ok, err) == <<"Require", ok, err>>
Refuse(err) == <<Must(FALSE, err)>>
E(e) == <<"Expr", e>>
Body(statements) == <<"Body", statements>>
ConstNone == I(<<"Const", None_>>)

Flat(seq, parts(_)) == FlattenSeq([i \in DOMAIN seq |-> parts(seq[i])])

\* instruction_range_contains Return, from the address on
ReturnsFrom(cs, from) == \E i \in from + 1 .. Wp(cs) : cs.progmem[i] = <<"Return">>

Perform(cs, p) ==
  CASE p[1] = "Instr" -> [cs EXCEPT !.progmem = Append(@, p[2])]
    [] p[1] = "Here" -> Define(cs, "labels", p[2], Wp(cs))
    [] p[1] = "Labels" -> [cs EXCEPT !.c = @ + p[2]]
    [] p[1] = "ExitUnless" ->
         [cs EXCEPT !.progmem = @ \o <<<<"Branch", Resolved(Wp(cs) + 2)>>, <<"Exit", p[2]>>>>]
    [] p[1] = "Var" -> AddIdentifier(cs, p[2], p[3])
    [] p[1] = "Enter" -> EnterContext(cs, p[2])
    [] p[1] = "Leave" -> ExitContext(cs)
    [] p[1] = "Function" -> EnterFunction(cs)
    [] p[1] = "EndFunction" -> ExitFunction(cs)
    [] p[1] = "Block" -> EnterBlock(cs)
    [] p[1] = "EndBlock" -> ExitBlock(cs)
    [] p[1] = "Require" -> Require(cs, p[2], p[3])
    [] p[1] = "MustReturn" -> Require(cs, ReturnsFrom(cs, p[2]), "NoReturn")
    [] p[1] = "Define" -> Define(cs, p[2], p[3], p[4])

(***************************************************************************)
(* compile_expression.                                                     *)
(***************************************************************************)
\* As FinishExpressions, with an expression that may end the run.
FinishExpressionsChecked ==
  {"Int", "String", "Bool", "Identifier", "NamedStruct", "Dot", "Some", "None",
   "EnumReference", "CheckUnwrap", "Query"}

FinishExpressions ==
  {"Int", "String", "Bool", "Identifier", "NamedStruct", "Dot", "Some", "None",
   "EnumReference"}

\* compile_fact_literal: bind fields are skipped
FactParts(fact) ==
  LET Set(fields, instr) ==
        Flat(fields, LAMBDA f : IF f[2] = Bind THEN <<>> ELSE <<E(f[2]), I(<<instr, f[1]>>)>>)
  IN <<I(<<"FactNew", fact.name>>)>> \o Set(fact.keys, "FactKeySet")
       \o (IF fact.valued THEN Set(fact.values, "FactValueSet") ELSE <<>>)

StructParts(s) ==
  <<I(<<"StructNew", s[2]>>)>> \o Flat(s[3], LAMBDA f : <<E(f[2]), I(<<"StructSet", f[1]>>)>>)

\* compile_counting_function
CountParts(cmp, limit) ==
  LET C == I(<<"Const", Int_(limit)>>)
  IN CASE cmp = "UpTo" -> <<I(<<"FactCount", limit>>)>>
       [] cmp = "AtLeast" -> <<I(<<"FactCount", limit>>), C, I(<<"Lt">>), I(<<"Not">>)>>
       [] cmp = "AtMost" -> <<I(<<"FactCount", limit + 1>>), C, I(<<"Gt">>), I(<<"Not">>)>>
       [] cmp = "Exactly" -> <<I(<<"FactCount", limit + 1>>), C, I(<<"Eq">>)>>

BinaryInstruction ==
  [ Add |-> "Add", Subtract |-> "Sub", And |-> "And", Or |-> "Or", Equal |-> "Eq",
    GreaterThan |-> "Gt", LessThan |-> "Lt" ]

\* compile_unwrap
UnwrapParts(e, not_none, exit_reason) ==
  << <<"Labels", 1>>, E(e), I(<<"Dup", 0>>), ConstNone, I(<<"Eq">>), I(<<"Not">>),
     I(<<"Branch", Unresolved(not_none)>>), I(<<"Exit", exit_reason>>), Here(not_none) >>

\* the two comparisons made of Eq and Gt or Lt
OrEqualParts(a, b, instr) ==
  << E(a), E(b), I(<<"Dup", 1>>), I(<<"Dup", 1>>), I(<<"Eq">>), I(<<"Swap", 2>>),
     I(<<"Swap", 1>>), I(<<instr>>), I(<<"Or">>) >>

\* an if expression: the false side comes first
IfParts(c, t, f, else_name, end_name) ==
  << <<"Labels", 2>>, E(c), I(<<"Branch", Unresolved(else_name)>>), E(f),
     I(<<"Jump", Unresolved(end_name)>>), Here(else_name), E(t), Here(end_name) >>

CallParts(name, ltype, args) ==
  Flat(args, LAMBDA a : <<E(a)>>) \o <<I(<<"Call", Unresolved(Label(name, ltype))>>)>>

ForeignParts(cs, module, name, args) ==
  LET f == CHOOSE f \in Foreign(cs.source, module, name) : TRUE
  IN << Must(module \in Range(cs.source.ffi_imports), "NotDefined"),
        I(<<"Meta", "FFI", name>>), Must(Len(f.args) = Len(args), "BadArgument") >>
       \o Flat(args, LAMBDA a : <<E(a)>>) \o <<I(<<"ExtCall", module, name>>)>>

ExpressionParts(cs, e) ==
  LET kind == Context(cs).kind
      Fact(f, parts) == <<Must(FactOk(cs, f, FALSE), "InvalidFactLiteral")>> \o FactParts(f) \o parts
  IN IF kind = "Finish" /\ e[1] \notin FinishExpressions THEN Refuse("InvalidExpression")
     ELSE IF ExpressionType(cs, e) = TypeError THEN Refuse("InvalidType")
     ELSE CASE e[1] \in {"Int", "String", "Bool", "None"} -> <<I(<<"Const", e>>)>>
            [] e[1] = "Some" -> <<E(e[2])>>
            [] e[1] = "NamedStruct" -> StructParts(e)
            [] e[1] = "Query" -> Fact(e[2], <<I(<<"Query">>)>>)
            [] e[1] = "Exists" ->
                 Fact(e[2], <<I(<<"Query">>), ConstNone, I(<<"Eq">>), I(<<"Not">>)>>)
            [] e[1] = "FactCount" ->
                 IF e[3] <= 0 THEN Refuse("BadArgument") ELSE Fact(e[4], CountParts(e[2], e[3]))
            [] e[1] = "If" -> IfParts(e[2], e[3], e[4], Anonymous(cs, 1), Anonymous(cs, 2))
            [] e[1] \in {"Serialize", "Deserialize"} ->
                 <<Must(kind = "PureFunction", "InvalidExpression"), E(e[2]), I(<<e[1]>>)>>
            [] e[1] = "FunctionCall" ->
                 <<Must(Len(cs.function_signatures[e[2]].args) = Len(e[3]), "BadArgument")>>
                   \o CallParts(e[2], "Function", e[3])
            [] e[1] = "ForeignFunctionCall" -> ForeignParts(cs, e[2], e[3], e[4])
            [] e[1] = "Identifier" -> <<I(<<"Meta", "Get", e[2]>>), I(<<"Get", e[2]>>)>>
            [] e[1] = "EnumReference" ->
                 << Must(/\ Has(cs.enum_values, e[2])
                         /\ e[3] \in Range(cs.enum_values[e[2]]), "NotDefined"),
                    I(<<"Const", <<"Enum", e[2], e[3]>>>>) >>
            [] e[1] = "Dot" -> <<E(e[2]), I(<<"StructGet", e[3]>>)>>
            [] e[1] \in DOMAIN BinaryInstruction ->
                 <<E(e[2]), E(e[3]), I(<<BinaryInstruction[e[1]]>>)>>
            [] e[1] = "GreaterThanOrEqual" -> OrEqualParts(e[2], e[3], "Gt")
            [] e[1] = "LessThanOrEqual" -> OrEqualParts(e[2], e[3], "Lt")
            [] e[1] = "NotEqual" -> <<E(e[2]), E(e[3]), I(<<"Eq">>), I(<<"Not">>)>>
            [] e[1] = "Negative" ->
                 <<E(e[2]), I(<<"Const", Int_(0)>>), I(<<"Swap", 1>>), I(<<"Sub">>)>>
            [] e[1] = "Not" -> <<E(e[2]), I(<<"Not">>)>>
            [] e[1] = "Unwrap" -> UnwrapParts(e[2], Anonymous(cs, 1), "Panic")
            [] e[1] = "CheckUnwrap" -> UnwrapParts(e[2], Anonymous(cs, 1), "Check")
            [] e[1] = "Is" ->
                 <<E(e[2]), ConstNone, I(<<"Eq">>)>> \o IF e[3] THEN <<I(<<"Not">>)>> ELSE <<>>

(***************************************************************************)
(* compile_statements.                                                     *)
(***************************************************************************)
Anywhere == {"Action", "PureFunction", "CommandPolicy", "CommandRecall", "Finish"}
StatementContexts ==
  [ Let |-> Anywhere \ {"Finish"}, Check |-> Anywhere \ {"Finish"},
    Match |-> Anywhere \ {"Finish"}, If |-> Anywhere \ {"Finish"},
    Publish |-> {"Action"}, Map |-> {"Action"}, ActionCall |-> {"Action"},
    Return |-> {"PureFunction"}, Finish |-> {"CommandPolicy", "CommandRecall"},
    Create |-> {"Finish"}, Update |-> {"Finish"}, Delete |-> {"Finish"},
    Emit |-> {"Finish"}, FunctionCall |-> {"Finish"}, DebugAssert |-> Anywhere ]

HasBind(fields) == \E i \in DOMAIN fields : fields[i][2] = Bind

(***************************************************************************)
(* Match: the expression, the tests of all arms, then their bodies.  Label *)
(* 1 is the end, label i + 1 the start of arm i.                           *)
(***************************************************************************)
DefaultIsLast(arms) ==
  \A i \in DOMAIN arms :
    arms[i].default => i = Len(arms) \/ (Last(arms).default /\ arms[i].body = <<>>
                                           /\ Last(arms).body = <<>>)

\* As MatchEnd, with the label defined before the match.
MatchEndFirst(cs, parts) == <<Here(Anonymous(cs, 1))>> \o parts

MatchEnd(cs, parts) == parts \o <<Here(Anonymous(cs, 1))>>

MatchParts(cs, e, arms) ==
  LET arm_label(i) == Unresolved(Anonymous(cs, i + 1))
      tests(i) ==
        IF arms[i].default THEN <<I(<<"Jump", arm_label(i)>>)>>
        ELSE Flat(arms[i].values, LAMBDA v :
               <<I(<<"Dup", 0>>), E(v), I(<<"Eq">>), I(<<"Branch", arm_label(i)>>)>>)
      body(i) == << Here(Anonymous(cs, i + 1)), I(<<"Pop">>), Body(arms[i].body),
                    I(<<"Jump", Unresolved(Anonymous(cs, 1))>>) >>
      distinct == ~HasDuplicates(FlattenSeq([i \in DOMAIN arms |-> arms[i].values]))
  IN MatchEnd(cs,
       << Must(distinct, "AlreadyDefined"), <<"Labels", Len(arms) + 1>>, E(e),
          Must(DefaultIsLast(arms), "Unknown") >>
       \o FlattenSeq([i \in DOMAIN arms |-> tests(i)])
       \o (IF \E i \in DOMAIN arms : arms[i].default THEN <<>> ELSE <<I(<<"Exit", "Panic">>)>>)
       \o FlattenSeq([i \in DOMAIN arms |-> body(i)]))

\* If: label 1 is the end, label i + 1 the one after branch i.
IfElseParts(cs, branches, fallback) ==
  LET end_label == Anonymous(cs, 1)
      branch(i) ==
        << E(branches[i][1]), I(<<"Not">>), I(<<"Branch", Unresolved(Anonymous(cs, i + 1))>>),
           Body(branches[i][2]), I(<<"Jump", Unresolved(end_label)>>),
           Here(Anonymous(cs, i + 1)) >>
  IN <<<<"Labels", Len(branches) + 1>>>> \o FlattenSeq([i \in DOMAIN branches |-> branch(i)])
       \o Flat(fallback, LAMBDA b : <<Body(b)>>) \o <<Here(end_label)>>

MapParts(cs, fact, identifier, body) ==
  LET top == Anonymous(cs, 1)
      end == Anonymous(cs, 2)
  IN <<Must(FactOk(cs, fact, FALSE), "InvalidFactLiteral"), <<"Labels", 2>>>> \o FactParts(fact)
       \o << I(<<"QueryStart">>), <<"Block">>, Var(identifier, TStruct(fact.name)),
             Here(top), I(<<"Block">>), I(<<"QueryNext", identifier>>),
             I(<<"Branch", Unresolved(end)>>), Body(body), I(<<"End">>),
             I(<<"Jump", Unresolved(top)>>), Here(end), I(<<"End">>), <<"EndBlock">> >>

UpdateParts(cs, fact, to) ==
  IF ~FactOk(cs, fact, TRUE) THEN Refuse("InvalidFactLiteral")
  ELSE << Must(~cs.fact_defs[fact.name].immutable, "Unknown"),
          Must(FieldsMatch(to, cs.fact_defs[fact.name].value, {}), "InvalidFactLiteral"),
          Must(~HasBind(to), "BadArgument") >>
         \o FactParts(fact) \o <<I(<<"Dup", 0>>)>>
         \o Flat(to, LAMBDA f : <<E(f[2]), I(<<"FactValueSet", f[1]>>)>>)
         \o <<I(<<"Update">>)>>

\* As FinishParts, but the scope is not left.
FinishPartsOpen(body) ==
  << <<"Enter", [kind |-> "Finish"]>>, I(<<"Meta", "Finish">>), <<"Block">>, I(<<"Block">>),
     Body(body), <<"EndBlock">>, <<"Leave">> >>

\* the block of a finish statement: a layered scope in the finish context
FinishParts(body) ==
  << <<"Enter", [kind |-> "Finish"]>>, I(<<"Meta", "Finish">>), <<"Block">>, I(<<"Block">>),
     Body(body), I(<<"End">>), <<"EndBlock">>, <<"Leave">> >>

ActionCallOk(cs, name, args) ==
  \E def \in Range(cs.source.actions) :
    /\ def.name = name
    /\ Len(def.arguments) = Len(args)
    /\ \A i \in DOMAIN args : Maybe(ExpressionType(cs, args[i]), def.arguments[i][2])

FinishCallOk(cs, name, args) ==
  /\ Has(cs.function_signatures, name)
  /\ cs.function_signatures[name].color = "Finish"
  /\ Len(cs.function_signatures[name].args) = Len(args)

StatementParts(cs, s, is_last) ==
  LET context == Context(cs)
      Typed(e, t) == Must(Maybe(ExpressionType(cs, e), t), "InvalidType")
  IN IF context.kind \notin StatementContexts[s[1]] THEN Refuse("InvalidStatement")
     ELSE CASE s[1] = "Let" ->
                 << E(s[3]), Var(s[2], ExpressionType(cs, s[3])), I(<<"Meta", "Let", s[2]>>),
                    I(<<"Def", s[2]>>) >>
            [] s[1] = "Check" -> <<E(s[2]), Typed(s[2], TBool), <<"ExitUnless", "Check">>>>
            [] s[1] = "Match" -> MatchParts(cs, s[2], s[3])
            [] s[1] = "If" -> IfElseParts(cs, s[2], s[3])
            [] s[1] = "Publish" -> <<E(s[2]), I(<<"Publish">>)>>
            [] s[1] = "Return" -> <<E(s[2]), Typed(s[2], context.return_type), I(<<"Return">>)>>
            [] s[1] = "Finish" ->
                 FinishParts(s[2]) \o <<Must(is_last, "Unknown"), I(<<"Exit", "Normal">>)>>
            [] s[1] = "Map" -> MapParts(cs, s[2], s[3], s[4])
            [] s[1] = "Create" ->
                 << Must(~HasBind(s[2].keys \o s[2].values), "BadArgument"),
                    Must(FactOk(cs, s[2], TRUE), "InvalidFactLiteral") >>
                   \o FactParts(s[2]) \o <<I(<<"Create">>)>>
            [] s[1] = "Update" -> UpdateParts(cs, s[2], s[3])
            [] s[1] = "Delete" ->
                 <<Must(FactOk(cs, s[2], FALSE), "InvalidFactLiteral")>>
                   \o FactParts(s[2]) \o <<I(<<"Delete">>)>>
            [] s[1] = "Emit" ->
                 << E(s[2]), Must(ExpressionType(cs, s[2])[1] = "Struct", "InvalidType"),
                    I(<<"Emit">>) >>
            [] s[1] = "FunctionCall" ->
                 <<Must(FinishCallOk(cs, s[2], s[3]), "BadArgument")>>
                   \o CallParts(s[2], "Temporary", s[3])
            [] s[1] = "ActionCall" ->
                 <<Must(ActionCallOk(cs, s[2], s[3]), "BadArgument")>>
                   \o CallParts(s[2], "Action", s[3])
            [] s[1] = "DebugAssert" ->
                 IF cs.source.debug THEN <<E(s[2]), <<"ExitUnless", "Panic">>>> ELSE <<>>

(***************************************************************************)
(* Definitions: a function [name, arguments, return_type, statements], a   *)
(* command [name, fields, policy, recall, seal, open, attributes], an      *)
(* action [name, arguments, statements].                                   *)
(***************************************************************************)
\* As ArgumentParts, first argument first.
ArgumentPartsInOrder(arguments) ==
  Flat(arguments, LAMBDA a : <<I(<<"Meta", "Let", a[1]>>), I(<<"Def", a[1]>>), Var(a[1], a[2])>>)

\* append_var for every argument, last first: the last one is on top of the stack
ArgumentParts(arguments) ==
  Flat(Reverse(arguments), LAMBDA a :
    <<I(<<"Meta", "Let", a[1]>>), I(<<"Def", a[1]>>), Var(a[1], a[2])>>)

Signature(f, color, return_type) ==
  <<"Define", "function_signatures", f.name,
    [args |-> Names(f.arguments), color |-> color, return_type |-> return_type]>>

FunctionParts(cs, f) ==
  << <<"Enter", [kind |-> "PureFunction", return_type |-> f.return_type]>>,
     Here(Label(f.name, "Function")), Signature(f, "Pure", f.return_type),
     Must(~HasDuplicates(Names(f.arguments)), "AlreadyDefined"), <<"Function">> >>
    \o ArgumentParts(f.arguments)
    \o << Body(f.statements), <<"MustReturn", Wp(cs)>>, I(<<"Exit", "Panic">>),
          <<"EndFunction">>, <<"Leave">> >>

FinishFunctionParts(f) ==
  <<<<"Enter", [kind |-> "Finish"]>>, Here(Label(f.name, "Temporary")), <<"Function">>>>
    \o ArgumentParts(f.arguments)
    \o <<Body(f.statements), I(<<"Return">>), <<"EndFunction">>, <<"Leave">>>>

ActionParts(a) ==
  << <<"Enter", [kind |-> "Action"]>>, <<"Function">>, Here(Label(a.name, "Action")),
     Must(~HasDuplicates(Names(a.arguments)), "AlreadyDefined") >>
    \o ArgumentParts(a.arguments)
    \o << Body(a.statements), I(<<"Return">>), <<"EndFunction">>,
          <<"Define", "action_defs", a.name, a.arguments>>, <<"Leave">> >>

(***************************************************************************)
(* Commands: the policy and recall blocks run with `this' set by the       *)
(* machine and the envelope on the stack; seal and open are functions      *)
(* behind a call stub.                                                     *)
(***************************************************************************)
CommandBlockParts(cmd, ltype, block) ==
  << Here(Label(cmd.name, ltype)), <<"Enter", [kind |-> ltype]>>, <<"Function">>,
     Var("this", TStruct(cmd.name)), Var("envelope", TStruct("Envelope")),
     I(<<"Def", "envelope">>), Body(block), <<"EndFunction">>, <<"Leave">>,
     I(<<"Exit", "Normal">>) >>

CommandPolicyParts(cmd) == CommandBlockParts(cmd, "CommandPolicy", cmd.policy)
CommandRecallParts(cmd) == CommandBlockParts(cmd, "CommandRecall", cmd.recall)

StubParts(cs, label, block, parameter, ptype, return_type) ==
  LET actual == Anonymous(cs, 1)
  IN << Must(block # <<>>, "Unknown"), <<"Labels", 1>>, Here(label),
        I(<<"Call", Unresolved(actual)>>), I(<<"Exit", "Normal">>), Here(actual),
        <<"Enter", [kind |-> "PureFunction", return_type |-> return_type]>>, <<"Function">>,
        Var(parameter, ptype), I(<<"Def", parameter>>), Body(block),
        <<"MustReturn", Wp(cs)>>, <<"EndFunction">>, <<"Leave">>, I(<<"Exit", "Panic">>) >>

CommandSealParts(cs, cmd) ==
  StubParts(cs, Label(cmd.name, "CommandSeal"), cmd.seal, "this",
            TStruct(cmd.name), TStruct("Envelope"))
CommandOpenParts(cs, cmd) ==
  StubParts(cs, Label(cmd.name, "CommandOpen"), cmd.open, "envelope",
            TStruct("Envelope"), TStruct(cmd.name))

\* expression_value: the expressions that are values already
RECURSIVE IsValueExpression(_)
IsValueExpression(e) ==
  \/ e[1] \in {"Int", "Bool", "String", "EnumReference"}
  \/ e[1] = "NamedStruct" /\ \A i \in DOMAIN e[3] : IsValueExpression(e[3][i][2])

RECURSIVE ExpressionValue(_)
ExpressionValue(e) ==
  CASE e[1] = "NamedStruct" ->
         Struct(e[2], FieldsOf([i \in DOMAIN e[3] |-> <<e[3][i][1], ExpressionValue(e[3][i][2])>>]))
    [] e[1] = "EnumReference" -> <<"Enum", e[2], e[3]>>
    [] OTHER -> e

AttributeParts(cmd) ==
  LET attrs == cmd.attributes
      value(a) == <<a[1], ExpressionValue(a[2])>>
  IN IF \E i \in DOMAIN attrs : ~IsValueExpression(attrs[i][2]) THEN Refuse("InvalidExpression")
     ELSE << Must(~HasDuplicates(Names(attrs)), "AlreadyDefined"),
             <<"Define", "command_attributes", cmd.name,
               FieldsOf([i \in DOMAIN attrs |-> value(attrs[i])])>> >>

CommandParts(cmd) ==
  CommandPolicyParts(cmd) \o CommandRecallParts(cmd)
    \o <<<<"seal", cmd>>, <<"open", cmd>>>> \o AttributeParts(cmd)
    \o <<<<"Define", "command_defs", cmd.name, FieldsOf(cmd.fields)>>>>

GlobalLetParts(g) ==
  IF ~IsValueExpression(g[2]) THEN Refuse("InvalidExpression")
  ELSE << <<"Define", "globals", g[1], ExpressionValue(g[2])>>,
          <<"Define", "globals_t", g[1], VType(ExpressionValue(g[2]))>> >>

StructDefParts(def) ==
  << Must(~HasDuplicates(Names(def.fields)), "AlreadyDefined"),
     <<"Define", "struct_defs", def.name, def.fields>> >>

EnumParts(def) ==
  << Must(~HasDuplicates(def.values), "AlreadyDefined"),
     <<"Define", "enum_values", def.name, def.values>> >>

FactDefParts(def) ==
  StructDefParts([name |-> def.name, fields |-> def.key \o def.value])
    \o <<<<"Define", "fact_defs", def.name, def>>>>

(***************************************************************************)
(* CompileState::compile: the parts of a policy, in order.                 *)
(***************************************************************************)
PolicyParts(source) ==
  <<I(<<"Exit", "Panic">>)>>
    \o Flat(source.global_lets, GlobalLetParts)
    \o Flat(source.effects \o source.structs, StructDefParts)
    \o Flat(source.ffi, LAMBDA m : Flat(m.structs, StructDefParts))
    \o Flat(source.enums, EnumParts)
    \o Flat(source.facts, FactDefParts)
    \o Flat(source.commands, StructDefParts)
    \o Flat(source.finish_functions, LAMBDA f : <<Signature(f, "Finish", NoType)>>)
    \o Flat(source.functions, LAMBDA f : <<<<"function", f>>>>)
    \o Flat(source.finish_functions, FinishFunctionParts)
    \o Flat(source.commands, CommandParts)
    \o Flat(source.actions, ActionParts)

Compound == {"Expr", "Stmt", "Body", "function", "seal", "open"}

\* what a compound part stands for in this state
Expand(cs, p) ==
  CASE p[1] = "Expr" -> ExpressionParts(cs, p[2])
    [] p[1] = "Stmt" -> StatementParts(cs, p[2], p[3])
    [] p[1] = "Body" -> [i \in DOMAIN p[2] |-> <<"Stmt", p[2][i], i = Len(p[2])>>]
    [] p[1] = "function" -> FunctionParts(cs, p[2])
    [] p[1] = "seal" -> CommandSealParts(cs, p[2])
    [] p[1] = "open" -> CommandOpenParts(cs, p[2])

\* The parts one after the other, up to the first that fails; by halves.
RECURSIVE CompileSeq(_, _)
CompileSeq(cs, parts) ==
  LET half == Len(parts) \div 2
  IN IF Failed(cs) \/ parts = <<>> THEN cs
     ELSE IF Len(parts) > 1
     THEN CompileSeq(CompileSeq(cs, SubSeq(parts, 1, half)), SubSeq(parts, half + 1, Len(parts)))
     ELSE IF parts[1][1] \in Compound THEN CompileSeq(cs, Expand(cs, parts[1]))
     ELSE Perform(cs, parts[1])

(***************************************************************************)
(* resolve_targets: every target becomes an address; temporary labels are  *)
(* dropped.                                                                *)
(***************************************************************************)
ResolveTargets(cs) ==
  LET pending(i) == i[1] \in {"Branch", "Jump", "Call"} /\ i[2][1] = "Unresolved"
      resolve(i) == IF pending(i) THEN <<i[1], Resolved(cs.labels[i[2][2]])>> ELSE i
  IN IF Failed(cs) THEN cs
     ELSE IF \E i \in Range(cs.progmem) : pending(i) /\ ~Has(cs.labels, i[2][2])
     THEN Fail(cs, "BadTarget")
     ELSE [cs EXCEPT !.progmem = [i \in DOMAIN @ |-> resolve(@[i])] \o <<>>,
                     !.labels = Restrict(@, {l \in DOMAIN @ : l[1] # "Temporary"})]

Compile(source) == ResolveTargets(CompileSeq(NewState(source), PolicyParts(source)))

\* Machine::into_module: what is kept of the state
IntoModule(cs) ==
  [ progmem |-> cs.progmem, labels |-> cs.labels, action_defs |-> cs.action_defs,
    command_defs |-> cs.command_defs, fact_defs |-> cs.fact_defs,
    struct_defs |-> cs.struct_defs, command_attributes |-> cs.command_attributes,
    globals |-> cs.globals ]

=============================================================================
