------------------------------- MODULE Schema -------------------------------
(***************************************************************************)
(* schema.py: the closed subset of JSON Schema that a declared contract is *)
(* written in (ValidDefinition, ValidateValue, ValidateDefaults), and the  *)
(* permissive profile that cognition results are checked with (Validate).  *)
(* An operator is TRUE when the function returns and FALSE when it raises. *)
(***************************************************************************)
EXTENDS Documents

CONSTANTS MaxSchemaDepth, MaxValueDepth   \* MAX_SCHEMA_DEPTH, MAX_VALUE_DEPTH

ASSUME DepthAssumption == MaxSchemaDepth \in Nat /\ MaxValueDepth \in Nat

TypeChecks == [null |-> {"null"}, boolean |-> {"bool"}, integer |-> {"int"},
               number |-> {"int", "float", "nan"}, string |-> {"str"},
               array |-> {"arr"}, object |-> {"obj"}]
HasType(v, name) == KindOf(v) \in TypeChecks[name]

Keywords == {"type", "enum", "const", "required", "properties", "additionalProperties", "items",
             "minItems", "maxItems", "minLength", "maxLength", "minimum", "maximum"}

RECURSIVE NestsWithin(_, _), AllFinite(_)
NestsWithin(v, depth) == depth >= 0 /\ \A child \in Children(v) : NestsWithin(child, depth - 1)
AllFinite(v) == KindOf(v) # "nan" /\ \A child \in Children(v) : AllFinite(child)

(* _reject_non_finite(), which refuses what it would not reach. *)
Bounded(v) == NestsWithin(v, MaxValueDepth) /\ AllFinite(v)

(* _is_json_value(), of a value that was parsed from JSON. *)
IsJsonValue(v) == NestsWithin(v, MaxSchemaDepth) /\ AllFinite(v)
-----------------------------------------------------------------------------
Magnitude(v) == CASE KindOf(v) = "bool" -> IF v.bool THEN 1 ELSE 0
                  [] KindOf(v) = "str" -> Len(v.str)
                  [] KindOf(v) = "arr" -> Len(v.arr)
                  [] OTHER -> v[KindOf(v)]

(* Equality, where the kinds of numbers compare by magnitude. *)
RECURSIVE Equal(_, _, _)
Equal(v, w, numbers) ==
    CASE {KindOf(v), KindOf(w)} \subseteq numbers -> Magnitude(v) = Magnitude(w)
      [] KindOf(v) # KindOf(w) \/ KindOf(v) = "nan" -> FALSE
      [] KindOf(v) = "arr" -> /\ DOMAIN v.arr = DOMAIN w.arr
                              /\ \A i \in DOMAIN v.arr : Equal(v.arr[i], w.arr[i], numbers)
      [] KindOf(v) = "obj" -> /\ DOMAIN v.obj = DOMAIN w.obj
                              /\ \A key \in DOMAIN v.obj : Equal(v.obj[key], w.obj[key], numbers)
      [] OTHER -> v = w

(* Mutant: one type and one value. *)
MutantPyEqual(v, w) == v = w
(* Python's ==, for which True is 1. *)
PyEqual(v, w) == Equal(v, w, {"int", "float", "bool"})
(* _json_equal(). *)
JsonEqual(v, w) == Equal(v, w, {"int", "float"})

LowerBound == [arr |-> "minItems", str |-> "minLength", int |-> "minimum", float |-> "minimum"]
UpperBound == [arr |-> "maxItems", str |-> "maxLength", int |-> "maximum", float |-> "maximum"]

(* The bounds of a value of a kind that has some. *)
WithinBounds(v, schema) ==
    LET Limit(bound) == Member(schema, bound[KindOf(v)], Null) IN
    KindOf(v) \in DOMAIN LowerBound =>
        /\ Limit(LowerBound) # Null => Magnitude(v) >= Magnitude(Limit(LowerBound))
        /\ Limit(UpperBound) # Null => Magnitude(v) <= Magnitude(Limit(UpperBound))

TypeNames(schema) == IF KindOf(schema.obj.type) = "str" THEN <<schema.obj.type>> ELSE schema.obj.type.arr

Closed(schema) == Member(schema, "additionalProperties", Null) = Bool(FALSE)
-----------------------------------------------------------------------------
(* _check_bounds(). *)
Count(bound) == KindOf(bound) = "int" /\ bound.int >= 0
BoundsOk(d) ==
    /\ \A key \in {"minItems", "maxItems", "minLength", "maxLength"} \cap DOMAIN d : Count(d[key])
    /\ \A key \in {"minimum", "maximum"} \cap DOMAIN d : KindOf(d[key]) \in {"int", "float"}
    /\ \A kind \in DOMAIN LowerBound :
           {LowerBound[kind], UpperBound[kind]} \subseteq DOMAIN d =>
               Magnitude(d[LowerBound[kind]]) <= Magnitude(d[UpperBound[kind]])

TypeOkIn(type) ==
    LET names == IF KindOf(type) = "str" THEN {type} ELSE Children(type) IN
    /\ KindOf(type) \in {"str", "arr"} /\ names # {}
    /\ \A name \in names : KindOf(name) = "str" /\ name.str \in DOMAIN TypeChecks

RequiredOk(required) ==
    /\ KindOf(required) = "arr"
    /\ \A name \in Children(required) : KindOf(name) = "str" /\ name.str # ""
    /\ Cardinality(Children(required)) = Len(required.arr)

(* validate_definition(): a contract that cannot be enforced is refused. *)
RECURSIVE ValidDefinitionAt(_, _)
ValidDefinitionAt(schema, depth) ==
    /\ depth <= MaxSchemaDepth /\ IsObj(schema)
    /\ DOMAIN schema.obj \subseteq Keywords /\ Bounded(schema)
    /\ LET d == schema.obj
           Says(key) == key \in DOMAIN d IN
       /\ Says("type") => TypeOkIn(d.type)
       /\ Says("enum") => KindOf(d.enum) = "arr" /\ d.enum.arr # <<>>
       /\ Says("const") => IsJsonValue(d.const)
       /\ Says("required") => RequiredOk(d.required)
       /\ Says("properties") =>
              /\ IsObj(d.properties) /\ "" \notin DOMAIN d.properties.obj
              /\ \A child \in Children(d.properties) : ValidDefinitionAt(child, depth + 1)
       /\ Says("additionalProperties") => d.additionalProperties = Bool(FALSE)
       /\ Says("items") => ValidDefinitionAt(d.items, depth + 1)
       /\ BoundsOk(d)

ValidDefinition(schema) == ValidDefinitionAt(schema, 0)

(* validate_value(), for a schema whose definition is valid. *)
RECURSIVE ValidateValue(_, _)
ValidateValue(v, schema) ==
    LET d == schema.obj
        Says(key) == key \in DOMAIN d IN
    /\ Bounded(v)
    /\ Says("enum") => \E item \in Elements(d.enum) : JsonEqual(v, item)
    /\ Says("const") => JsonEqual(v, d.const)
    /\ Says("type") => \E i \in DOMAIN TypeNames(schema) : HasType(v, TypeNames(schema)[i].str)
    /\ IsObj(v) =>
        /\ Says("required") => \A name \in Children(d.required) : name.str \in DOMAIN v.obj
        /\ \A key \in DOMAIN v.obj \cap DOMAIN Properties(schema) :
               ValidateValue(v.obj[key], Properties(schema)[key])
        /\ Closed(schema) => DOMAIN v.obj \subseteq DOMAIN Properties(schema)
    /\ WithinBounds(v, schema)
    /\ KindOf(v) = "arr" /\ Says("items") => \A item \in Elements(v) : ValidateValue(item, d.items)

(* Mutant: only the names of the properties are looked at. *)
MutantValidateDefaults(v, schema) ==
    /\ ValidDefinition(schema) /\ Bounded(v)
    /\ Closed(schema) => DOMAIN v.obj \subseteq DOMAIN Properties(schema)

(* validate_declared_defaults(): required, enum and const of the whole are  *)
(* left to the check of the merged value.                                   *)
ValidateDefaults(v, schema) ==
    /\ ValidDefinition(schema) /\ Bounded(v)
    /\ "type" \in DOMAIN schema.obj =>
           \E i \in DOMAIN TypeNames(schema) : HasType(v, TypeNames(schema)[i].str)
    /\ IF IsObj(v)
       THEN \A key \in DOMAIN v.obj :
                IF key \in DOMAIN Properties(schema) THEN ValidateValue(v.obj[key], Properties(schema)[key])
                ELSE ~Closed(schema)
       ELSE "properties" \notin DOMAIN schema.obj /\ ~Closed(schema)

(* validate(), the permissive profile: keywords it does not know are        *)
(* ignored, True is 1, and a name of a type is looked at only when it is    *)
(* reached.                                                                 *)
RECURSIVE Validate(_, _)
Validate(v, schema) ==
    LET d == schema.obj
        Says(key) == key \in DOMAIN d
        NotList(key) == KindOf(d[key]) # "arr" IN
    /\ Says("enum") => NotList("enum") \/ \E item \in Elements(d.enum) : PyEqual(v, item)
    /\ Says("const") => PyEqual(v, d.const)
    /\ Says("type") /\ KindOf(d.type) \in {"str", "arr"} /\ TypeNames(schema) # <<>> =>
           \E i \in DOMAIN TypeNames(schema) :
               /\ \A j \in 1..i : TypeNames(schema)[j].str \in DOMAIN TypeChecks
               /\ HasType(v, TypeNames(schema)[i].str)
    /\ IsObj(v) =>
        /\ Says("required") => \A name \in Children(d.required) : name.str \in DOMAIN v.obj
        /\ \A key \in DOMAIN v.obj \cap DOMAIN Properties(schema) :
               IsObj(Properties(schema)[key]) /\ Validate(v.obj[key], Properties(schema)[key])
        /\ Closed(schema) => DOMAIN v.obj \subseteq DOMAIN Properties(schema)
    /\ WithinBounds(v, schema)
    /\ KindOf(v) = "arr" /\ Says("items") /\ d.items # Null =>
           IsObj(d.items) /\ \A item \in Elements(v) : Validate(item, d.items)
=============================================================================
