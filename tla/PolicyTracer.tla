---------------------------- MODULE PolicyTracer ----------------------------
(***************************************************************************)
(* The static checks a compiled policy goes through                        *)
(* (aranya-policy-compiler: tracer.rs, tracer/analyzers, validate.rs).     *)
(* From a label, every path of the program is followed: a branch is taken  *)
(* both ways, whatever its condition.  Along a path each analyzer keeps    *)
(* its own state and may report a failure.                                 *)
(*                                                                         *)
(* The tracer remembers no address it has seen, so a loop is followed for  *)
(* ever.  TraceBound stands for that: a path longer than it reports        *)
(* "endless".                                                              *)
(***************************************************************************)
EXTENDS PolicyCompiler

CONSTANT TraceBound

ASSUME TraceBoundPositive == TraceBound \in Nat \ {0}

(***************************************************************************)
(* The analyzers.  Their states are the fields of a record: `value_sets'   *)
(* of ValueAnalyzer, `finish' of FinishAnalyzer, `have_return' of          *)
(* FunctionAnalyzer.                                                       *)
(***************************************************************************)
NewAnalyzers(predefined) ==
  [value_sets |-> <<predefined>>, finish |-> FALSE, have_return |-> FALSE]

ValueAnalyzer(st, instr) ==
  LET current == Last(st.value_sets)
  IN CASE instr[1] = "Call" -> [st EXCEPT !.value_sets = Append(@, {})]
       [] instr[1] = "Return" -> [st EXCEPT !.value_sets = Front(@)]
       [] instr[1] = "Meta" /\ instr[2] = "Let" ->
            [st EXCEPT !.value_sets = Append(Front(@), current \cup {instr[3]})]
       [] OTHER -> st

\* As ValueFailure, but a read is never a failure.
ValueFailureOnLet(st, instr, globals) ==
  instr[1] = "Meta" /\ instr[2] = "Let" /\ instr[3] \in Last(st.value_sets)

ValueFailure(st, instr, globals) ==
  LET current == Last(st.value_sets)
  IN /\ instr[1] = "Meta"
     /\ \/ instr[2] = "Let" /\ instr[3] \in current
        \/ instr[2] = "Get" /\ instr[3] \notin current \cup globals

FinishAnalyzer(st, instr) ==
  IF instr = <<"Meta", "Finish">> THEN [st EXCEPT !.finish = TRUE] ELSE st

FinishFailure(st, instr) == instr = <<"Exit", "Normal">> /\ ~st.finish

FunctionAnalyzer(st, instr) ==
  IF instr = <<"Return">> THEN [st EXCEPT !.have_return = TRUE] ELSE st

FunctionFailure(st, instr) == instr[1] = "Exit" /\ ~st.have_return

(***************************************************************************)
(* trace_inner.  The tracer is cloned at a branch, so it is a set of       *)
(* paths, each [at, calls, st], that are followed one instruction at a     *)
(* time; `found' collects the failures <<analyzer, address>>.              *)
(***************************************************************************)
Failures(m, analyzers, path) ==
  LET instr == m.progmem[path.at + 1]
  IN {<<a, path.at>> : a \in {a \in analyzers :
        \/ a = "value" /\ ValueFailure(path.st, instr, DOMAIN m.globals)
        \/ a = "finish" /\ FinishFailure(path.st, instr)
        \/ a = "function" /\ FunctionFailure(path.st, instr)}}

Onward(m, path) ==
  LET instr == m.progmem[path.at + 1]
      st1 == FunctionAnalyzer(FinishAnalyzer(ValueAnalyzer(path.st, instr), instr), instr)
      to(next, calls) == [at |-> next, calls |-> calls, st |-> st1]
  IN CASE instr[1] = "Jump" -> {to(instr[2][2], path.calls)}
       [] instr[1] = "Branch" -> {to(instr[2][2], path.calls), to(path.at + 1, path.calls)}
       [] instr[1] = "Call" -> {to(instr[2][2], Append(path.calls, path.at))}
       [] instr[1] = "Return" ->
            IF path.calls = <<>> THEN {} ELSE {to(Last(path.calls) + 1, Front(path.calls))}
       [] instr[1] = "Exit" -> {}
       [] OTHER -> {to(path.at + 1, path.calls)}

\* n instructions further; by halves
RECURSIVE TraceInner(_, _, _, _)
TraceInner(m, analyzers, trace, n) ==
  LET live == {p \in trace.paths : p.at < Len(m.progmem)}
  IN IF trace.paths = {} THEN trace
     ELSE IF n > 1
     THEN TraceInner(m, analyzers, TraceInner(m, analyzers, trace, n \div 2), n - n \div 2)
     ELSE [ found |-> trace.found
                        \cup UNION {Failures(m, analyzers, p) : p \in live}
                        \cup {<<"error", p.at>> : p \in trace.paths \ live},
            paths |-> UNION {Onward(m, p) : p \in live} ]

(***************************************************************************)
(* validate: what is predefined for a label and which analyzers look at    *)
(* it.                                                                     *)
(***************************************************************************)
Predefined(m, label) ==
  CASE label[1] = "Action" -> Range(Names(m.action_defs[label[2]]))
    [] label[1] \in {"CommandPolicy", "CommandRecall"} -> {"this", "envelope"}
    [] label[1] = "CommandSeal" -> {"this"}
    [] label[1] = "CommandOpen" -> {"envelope"}
    [] label[1] = "Function" -> {}

AnalyzersOf(label) ==
  CASE label[1] \in {"Action", "CommandSeal", "CommandOpen"} -> {"value"}
    [] label[1] \in {"CommandPolicy", "CommandRecall"} -> {"value", "finish"}
    [] label[1] = "Function" -> {"function"}

Trace(m, label) ==
  LET start == [at |-> m.labels[label], calls |-> <<>>,
                st |-> NewAnalyzers(Predefined(m, label))]
      trace == TraceInner(m, AnalyzersOf(label), [found |-> {}, paths |-> {start}], TraceBound)
  IN trace.found \cup {<<"endless", p.at>> : p \in trace.paths}

\* validate returns whether some label failed, but FALSE when the tracing itself did.
Validate(m) ==
  LET traces == UNION {Trace(m, label) : label \in DOMAIN m.labels}
  IN traces # {} /\ \A f \in traces : f[1] # "error"

=============================================================================
