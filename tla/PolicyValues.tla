---------------------------- MODULE PolicyValues ----------------------------
(***************************************************************************)
(* The values of the policy machine and the types they have                *)
(* (aranya-policy-module: data.rs, label.rs).  A value is a tuple whose    *)
(* first element is its variant:                                           *)
(*                                                                         *)
(*   <<"Int", n>>  <<"Bool", b>>  <<"Bytes", s>>  <<"Id", i>>  <<"None">>  *)
(*   <<"Enum", name, v>>  <<"Struct", name, fields>>                       *)
(*   <<"Fact", name, keys, values>>                                        *)
(*                                                                         *)
(* `fields' is a function from field names to values; `keys' and `values'  *)
(* are sequences of pairs <<name, value>>, in insertion order.  There is   *)
(* no variant for Some: an optional value is None or the value itself.     *)
(* The bytes of a serialized struct are <<"Bytes", the struct>>: the       *)
(* encoding keeps the name and every field and nothing else.               *)
(***************************************************************************)
EXTENDS Integers, Sequences, FiniteSets, SequencesExt, TLC

\* The range of the machine's integers; i64 in the code.
CONSTANTS IntMin, IntMax

ASSUME IntRange == IntMin \in Int /\ IntMax \in Int /\ IntMin < 0 /\ IntMax > 0

Int_(n) == <<"Int", n>>
Bool_(b) == <<"Bool", b>>
None_ == <<"None">>

TInt == <<"Int">>
TBool == <<"Bool">>
TBytes == <<"Bytes">>
TId == <<"Id">>
TStruct(name) == <<"Struct", name>>
TOptional(t) == <<"Optional", t>>
NoType == <<"NoType">>

(***************************************************************************)
(* Value::vtype: facts and None have no type.                              *)
(***************************************************************************)
VType(v) ==
  CASE v[1] \in {"Int", "Bool", "String", "Bytes", "Id"} -> <<v[1]>>
    [] v[1] \in {"Enum", "Struct"} -> <<v[1], v[2]>>
    [] OTHER -> NoType

(***************************************************************************)
(* Value::fits_type: a value without a type fits every optional type.      *)
(***************************************************************************)
FitsType(v, t) ==
  IF VType(v) = NoType THEN t[1] = "Optional"
  ELSE VType(v) = IF t[1] = "Optional" THEN t[2] ELSE t

\* The conversions TryFrom<Value> and TryAsMut<_>: only the variant itself.
Is(v, variant) == v[1] = variant

\* TryFrom<Value> for HashableValue: what may be the key of a fact.
Hashable(v) == v[1] \in {"Int", "Bool", "String", "Id"}

InRange(n) == IntMin <= n /\ n <= IntMax

(***************************************************************************)
(* Structs and facts.                                                      *)
(***************************************************************************)
SetField(fields, name, v) == (name :> v) @@ fields

FieldsOf(pairs) ==
  [f \in {pairs[i][1] : i \in DOMAIN pairs} |->
     LET last == CHOOSE i \in DOMAIN pairs :
                   /\ pairs[i][1] = f
                   /\ \A j \in DOMAIN pairs : pairs[j][1] = f => j <= i
     IN pairs[last][2]]

Struct(name, fields) == <<"Struct", name, fields>>

NewFact(name) == <<"Fact", name, <<>>, <<>>>>

\* Fact::set_key and Fact::set_value replace the entry of that name or add one.
SetPair(pairs, name, v) ==
  IF \E i \in DOMAIN pairs : pairs[i][1] = name
  THEN [i \in DOMAIN pairs |-> IF pairs[i][1] = name THEN <<name, v>> ELSE pairs[i]]
  ELSE Append(pairs, <<name, v>>)

SetKey(f, name, v) == [f EXCEPT ![3] = SetPair(@, name, v)]
SetValue(f, name, v) == [f EXCEPT ![4] = SetPair(@, name, v)]

\* FactField::Bind: a field of a fact literal that is left open
Bind == <<"Bind">>

(***************************************************************************)
(* Labels are <<type, name, number>>, the number being 0 but for the       *)
(* labels the compiler makes up; the targets of jumps are                  *)
(* <<"Resolved", address>> or <<"Unresolved", label>>.                     *)
(***************************************************************************)
Label(name, ltype) == <<ltype, name, 0>>
Unresolved(label) == <<"Unresolved", label>>
Resolved(addr) == <<"Resolved", addr>>

(***************************************************************************)
(* Facts in the database.  A query finds the facts whose keys begin with   *)
(* the given ones, in the order of the encoded keys; ser_key keeps the     *)
(* order of two values of one type, and puts integers before booleans,     *)
(* strings and ids.                                                        *)
(***************************************************************************)
KeyTag(v) == CHOOSE i \in 1..4 : <<"Int", "Bool", "String", "Id">>[i] = v[1]

KeyLess(k, l) ==
  LET differ == {i \in 1..Min({Len(k), Len(l)}) : k[i] # l[i]}
      a == k[Min(differ)][2]
      b == l[Min(differ)][2]
  IN IF differ = {} THEN Len(k) < Len(l)
     ELSE IF a[1] # b[1] THEN KeyTag(a) < KeyTag(b)
     ELSE IF a[1] = "Bool" THEN b[2] /\ ~a[2] ELSE a[2] < b[2]

FactInsert(db, name, keys, values) ==
  {f \in db : f[1] # name \/ f[2] # keys} \cup {<<name, keys, values>>}

FactDelete(db, name, keys) == {f \in db : f[1] # name \/ f[2] # keys}

FactQuery(db, name, keys) ==
  SetToSortSeq({f \in db : f[1] = name /\ IsPrefix(keys, f[2])},
               LAMBDA f, g : KeyLess(f[2], g[2]))

\* the struct of a fact that was found, under this name
AsStruct(name, f) == Struct(name, FieldsOf(f[2] \o f[3]))

(***************************************************************************)
(* External: the envelope module of the test FFI (vm_policy/testing.rs).   *)
(* An id is <<"Id", x>>: x is <<n>> for the id of a device or <<"hash",    *)
(* parent, author, payload>> for the id of a command, so two commands have *)
(* one id only when all three are the same.                                *)
(***************************************************************************)
Author == <<"Id", <<1>>>>
NoId == <<"Id", <<0>>>>

HashId(parent_id, author, payload) == <<"Id", <<"hash", parent_id, author, payload>>>>

Envelope(parent_id, author, id, payload, signature) ==
  Struct("Envelope", [parent_id |-> parent_id, author_id |-> author, command_id |-> id,
                      payload |-> payload, signature |-> signature])

=============================================================================
