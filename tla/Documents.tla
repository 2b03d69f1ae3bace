----------------------------- MODULE Documents ------------------------------
(***************************************************************************)
(* JSON documents as the bundle modules see them: values, and the fields   *)
(* of a manifest, bundles/manifest.py.                                     *)
(*                                                                         *)
(* A JSON value is a record of one field that is named for its type and    *)
(* holds its data.  Floats are whole, and "nan" stands for all that is not *)
(* finite; a schema is such a value too.  A manifest is the document       *)
(* itself, read with the defaults of its absent fields.                    *)
(***************************************************************************)
EXTENDS Integers, Sequences, FiniteSets

Null == [null |-> TRUE]
NaN == [nan |-> TRUE]
Bool(b) == [bool |-> b]
Whole(n) == [int |-> n]
Float(n) == [float |-> n]
Str(s) == [str |-> s]
Arr(s) == [arr |-> s]
Obj(f) == [obj |-> f]

KindOf(v) == CHOOSE kind \in DOMAIN v : TRUE
IsObj(v) == KindOf(v) = "obj"

Flag(v) == KindOf(v) = "bool"

(* What an array contains, and what an object maps its keys to. *)
Elements(a) == {a.arr[i] : i \in DOMAIN a.arr}
Children(v) == CASE KindOf(v) = "obj" -> {v.obj[key] : key \in DOMAIN v.obj}
                 [] KindOf(v) = "arr" -> Elements(v)
                 [] OTHER -> {}

(* A member of a value, or of none when it is not there. *)
Member(v, key, default) == IF key \in DOMAIN v.obj THEN v.obj[key] ELSE default

(* The schemas that a schema gives for the members of an object. *)
Properties(schema) == Member(schema, "properties", Obj(<<>>)).obj
-----------------------------------------------------------------------------
(* Fields of a manifest that parse_manifest() accepts. *)
Has(m, field) == field \in DOMAIN m.obj
IsStandard(m) == m.obj.schema_version.int = 2
Config(m) == Member(m, "config", Obj(<<>>))
Scaffold(m) == IsStandard(m) /\ Member(m, "scaffold", Bool(FALSE)).bool
InputsSchema(m) == IF IsStandard(m) THEN Member(m, "inputs_schema", Null) ELSE Null
ConfigSchema(m) == IF IsStandard(m) THEN Member(m, "config_schema", Null) ELSE Null
=============================================================================
