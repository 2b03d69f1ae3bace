--------------------------- MODULE SchemaMeaning ----------------------------
(***************************************************************************)
(* What a declared schema means, stated the way the specification of JSON  *)
(* Schema does and not the way schema.py walks a value, and the properties *)
(* of Contract that are about what the walk computes: they recurse over    *)
(* values, which is why they are apart from the others.                    *)
(***************************************************************************)
EXTENDS Contract, Manifest

(* The meaning of a schema, as the specification of JSON Schema gives it:   *)
(* every keyword, at every place of the value, is an assertion of its own.  *)
RECURSIVE Canonical(_), Places(_, _)
Canonical(v) ==
    CASE KindOf(v) = "float" -> Whole(v.float)
      [] KindOf(v) = "arr" -> Arr([i \in DOMAIN v.arr |-> Canonical(v.arr[i])])
      [] IsObj(v) -> Obj([key \in DOMAIN v.obj |-> Canonical(v.obj[key])])
      [] OTHER -> v
Places(v, schema) ==
    {<<v, schema>>}
      \union (IF IsObj(schema) /\ IsObj(v) /\ Has(schema, "properties")
              THEN UNION {Places(v.obj[key], Properties(schema)[key]) :
                              key \in DOMAIN v.obj \cap DOMAIN Properties(schema)} ELSE {})
      \union (IF IsObj(schema) /\ KindOf(v) = "arr" /\ Has(schema, "items")
              THEN UNION {Places(item, schema.obj.items) : item \in Elements(v)} ELSE {})

Asserts(keyword, d, v) ==
    CASE keyword = "enum" -> Canonical(v) \in {Canonical(item) : item \in Elements(d.enum)}
      [] keyword = "const" -> Canonical(v) = Canonical(d.const)
      [] keyword = "type" -> \E name \in DOMAIN TypeChecks :
             Str(name) \in {d.type} \union Children(d.type) /\ HasType(v, name)
      [] keyword = "required" ->
             IsObj(v) => {name.str : name \in Elements(d.required)} \subseteq DOMAIN v.obj
      [] keyword = "additionalProperties" ->
             IsObj(v) => DOMAIN v.obj \subseteq DOMAIN Properties(Obj(d))
      [] keyword = "minItems" -> KindOf(v) = "arr" => Len(v.arr) >= d.minItems.int
      [] keyword = "maxItems" -> KindOf(v) = "arr" => Len(v.arr) <= d.maxItems.int
      [] keyword = "minLength" -> KindOf(v) = "str" => Len(v.str) >= d.minLength.int
      [] keyword = "maxLength" -> KindOf(v) = "str" => Len(v.str) <= d.maxLength.int
      [] keyword = "minimum" -> HasType(v, "number") => Magnitude(v) >= Magnitude(d.minimum)
      [] keyword = "maximum" -> HasType(v, "number") => Magnitude(v) <= Magnitude(d.maximum)
      [] OTHER -> keyword \in {"properties", "items"}

Satisfies(v, schema) ==
    /\ AllFinite(v)
    /\ \A place \in Places(v, schema) :
           IsObj(place[2]) /\ \A keyword \in DOMAIN place[2].obj :
               Asserts(keyword, place[2].obj, place[1])
-----------------------------------------------------------------------------
(* The permissive profile is permissive: it accepts whatever the strict one *)
(* does, though True is 1 for it and it compares in an order of its own     *)
(* (schema.py:6-13).                                                        *)
StrictImpliesLegacy ==
    found.at = "bundle" =>
        \A schema \in {InputsSchema(found.manifest), ConfigSchema(found.manifest)} \ {Null} :
            \A v \in {request.inputs, request.config} \ {Absent} :
                ValidateValue(v, schema) => Validate(v, schema)

(* Whoever keeps to the schema is not refused for the defaults of the       *)
(* bundle: when these passed the static check and every override fits where *)
(* it goes, a start is refused only for what the static check leaves to the *)
(* merged value: required, enum and const of the whole (schema.py:302-318). *)
StaticDefaultsSuffice ==
    pc = "refused_config" /\ ~edited /\ DOMAIN Config(found.manifest).obj # {} =>
        LET schema == Declared("config_schema")
            merged == Merge(Config(found.manifest), Overrides)
            Kept(keyword) == Has(schema, keyword) => Asserts(keyword, schema.obj, merged) IN
        \/ ~Bounded(Overrides)
        \/ \E key \in DOMAIN Overrides.obj :
               IF key \in DOMAIN Properties(schema)
               THEN ~Satisfies(Overrides.obj[key], Properties(schema)[key])
               ELSE Has(schema, "additionalProperties")
        \/ ~Kept("required") \/ ~Kept("enum") \/ ~Kept("const")
=============================================================================
