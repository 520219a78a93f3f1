------------------------------ MODULE KeyStore ------------------------------
(***************************************************************************)
(* What a key store promises (aranya-crypto: keystore/mod.rs, and          *)
(* memstore.rs, whose map takes each call in one step): a map from key     *)
(* identifiers to keys that every call sees or changes at one moment       *)
(* between its start and its return.                                       *)
(*                                                                         *)
(* A call may fail.  An insert or a get that failed has changed nothing.   *)
(* A remove that failed may have removed the key all the same.  Of a call  *)
(* that is cut short because its thread dies nothing else is known: it has *)
(* had its effect or it has not.                                           *)
(***************************************************************************)
CONSTANTS Threads, Ids, Absent

VARIABLES
  keys,  \* the key stored under each identifier, or Absent
  ops    \* the call of each thread: "begun", "taken" once it had its effect, "done"

vars == <<keys, ops>>

NoOp == [op |-> "none", id |-> Absent, key |-> Absent, state |-> "done", result |-> <<"none">>]

Init ==
  /\ keys \in [Ids -> Ids \cup {Absent}]
  /\ ops = [t \in Threads |-> NoOp]

Invoke(t) ==
  LET call == ops'[t]
  IN /\ ops[t].state = "done"
     /\ call.op \in {"insert", "remove", "get"}
     /\ call.id \in Ids
     /\ call.key \in Ids \cup {Absent}
     /\ ops' = [ops EXCEPT ![t] = [op |-> call.op, id |-> call.id, key |-> call.key,
                                   state |-> "begun", result |-> <<"none">>]]
     /\ UNCHANGED keys

Begun(t, op) == ops[t].state = "begun" /\ ops[t].op = op

\* The call has had its effect; it may return at once.
Taken(t, result) ==
  \E state \in {"taken", "done"} :
    ops' = [ops EXCEPT ![t].state = state, ![t].result = result]

Found(t) ==
  LET key == keys[ops[t].id] IN IF key = Absent THEN <<"absent">> ELSE <<"key", key>>

Insert(t) ==
  /\ Begun(t, "insert")
  /\ keys[ops[t].id] = Absent
  /\ keys' = [keys EXCEPT ![ops[t].id] = ops[t].key]
  /\ Taken(t, <<"ok">>)

Remove(t) ==
  /\ Begun(t, "remove")
  /\ keys' = [keys EXCEPT ![ops[t].id] = Absent]
  /\ Taken(t, Found(t))

Get(t) ==
  /\ Begun(t, "get")
  /\ Taken(t, Found(t))
  /\ UNCHANGED keys

Fail(t) ==
  /\ ops[t].state = "begun"
  /\ Taken(t, <<"error">>)
  /\ UNCHANGED keys

Return(t) ==
  /\ ops[t].state = "taken"
  /\ \/ ops' = [ops EXCEPT ![t].state = "done"]
     \/ /\ ops[t].op = "remove"
        /\ ops' = [ops EXCEPT ![t].state = "done", ![t].result = <<"error">>]
  /\ UNCHANGED keys

\* Some threads die.  Of the calls they were in, those of S have their effect.
Die ==
  LET dead == {t \in Threads : ops[t] # NoOp /\ ops'[t] = NoOp}
  IN /\ dead # {}
     /\ ops' = [t \in Threads |-> IF t \in dead THEN NoOp ELSE ops[t]]
     /\ \E S \in SUBSET {t \in dead : ops[t].state # "done"} :
          keys' = [id \in Ids |->
            LET inserts == {t \in S : ops[t].op = "insert" /\ ops[t].id = id}
                removes == {t \in S : ops[t].op = "remove" /\ ops[t].id = id}
            IN IF keys[id] = Absent /\ inserts # {} THEN ops[CHOOSE t \in inserts : TRUE].key
               ELSE IF removes # {} THEN Absent ELSE keys[id]]

Step(t) ==
  /\ ops'[t] # ops[t]
  /\ Invoke(t) \/ Insert(t) \/ Remove(t) \/ Get(t) \/ Fail(t) \/ Return(t)

Next == (\E t \in Threads : Step(t)) \/ Die

Spec == Init /\ [][Next]_vars

=============================================================================
