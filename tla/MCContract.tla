----------------------------- MODULE MCContract -----------------------------
(***************************************************************************)
(* An instance of Contract for TLC.  Projects differ from a sound one in   *)
(* one respect each: the schemas and the defaults the manifest declares, a *)
(* field that is malformed, or what is on the way to the manifest.         *)
(* Requests differ in the reference and in one of inputs, overrides and    *)
(* allow_scaffold.                                                         *)
(***************************************************************************)
EXTENDS SchemaMeaning, TLC

One(key, v) == Obj(key :> v)
Word(s) == Str(s)

(* Schemas: of members, of the whole, of lists, and some that are none. *)
Counted == One("properties", One("x", Obj("type" :> Word("integer") @@ "minimum" :> Whole(0))))
Tight == Obj("type" :> Word("object") @@ "required" :> Arr(<<Word("x")>>)
             @@ "properties" :> One("x", Obj("type" :> Word("integer") @@ "minimum" :> Whole(0)))
             @@ "additionalProperties" :> Bool(FALSE))
Exact == One("properties", One("x", One("const", Whole(1))))
Root == One("enum", Arr(<<One("x", Whole(1)), Obj(<<>>)>>))
Listed == One("properties", One("x",
              Obj("type" :> Arr(<<Word("null"), Word("array")>>) @@ "maxItems" :> Whole(1)
                  @@ "items" :> Obj("type" :> Word("string") @@ "minLength" :> Whole(1)))))
Empty == One("additionalProperties", Bool(FALSE))
Schemas == {Counted, Tight, Exact, Root, Listed, Empty}
NoSchemas == {Null, Word("x"), One("format", Word("x")), One("type", Word("real")),
              One("additionalProperties", One("type", Word("null"))), One("minItems", Null),
              Obj("minLength" :> Whole(2) @@ "maxLength" :> Whole(1)), One("const", NaN),
              One("items", One("items", One("items", Obj(<<>>)))), One("enum", Arr(<<>>)),
              One("required", Arr(<<Word("x"), Word("x")>>)), One("maximum", Bool(TRUE))}

Values == {Null, Obj(<<>>), One("x", Whole(1)), One("x", Bool(TRUE)), One("x", Float(1)),
           One("x", Whole(-1)), One("x", Arr(<<Word("a")>>)), One("x", Arr(<<Word("")>>)),
           One("x", Arr(<<Word("a"), Word("a")>>)), One("y", Whole(1)),
           Obj("x" :> Whole(2) @@ "y" :> Whole(1)), One("x", NaN),
           One("y", Arr(<<Arr(<<Arr(<<>>)>>)>>)), Word("x")}

Sound == "schema_version" :> Whole(2) @@ "name" :> Word("b") @@ "version" :> Word("1")
         @@ "description" :> Word("d") @@ "entrypoint" :> Word("m:f")
Legacy == "schema_version" :> Whole(1) @@ "entrypoint" :> Word("m:f")
Without(m, field) == [f \in DOMAIN m \ {field} |-> m[f]]

(* One field that is malformed, or declared as null. *)
Flaws == {"schema_version" :> Bool(TRUE), "schema_version" :> Whole(3), "name" :> Word("x"),
          "name" :> Word("B"), "name" :> Word("b "), "description" :> Word(""),
          "entrypoint" :> Word("f"), "python_path" :> Word(" "), "config" :> Null,
          "colour" :> Word("d"), "when_to_use" :> Null, "output" :> Null,
          "output" :> One("schema", Null), "stop" :> One("grace_seconds", Whole(31)),
          "dependencies" :> One("credential_env", Arr(<<Word("d")>>)),
          "resources" :> One("exclusive", Null), "authorizations" :> Word("d"),
          "scaffold" :> Whole(0)}
Extras == {"python_path" :> Word("d"), "output" :> One("schema", Counted), "scaffold" :> Bool(TRUE),
           "stop" :> One("grace_seconds", Float(1)), "authorizations" :> Arr(<<Word("d")>>),
           "dependencies" :> One("credential_env", Arr(<<Word("KEY")>>)), "name" :> Word("b")}
Defaults == {v \in Values : IsObj(v)}
Merged == {Merge(v, w) : v \in Defaults, w \in Defaults}

ManifestContents ==
    {flaw @@ Sound : flaw \in Flaws \union Extras}
      \union {Without(Sound, field) : field \in DOMAIN Sound}
      \union {Legacy, "config" :> One("x", Whole(1)) @@ "inputs_schema" :> Tight @@ Legacy}
      \union {"inputs_schema" :> s @@ Sound : s \in Schemas \union NoSchemas}
      \union {"config_schema" :> s @@ Sound : s \in Schemas \union {Null}}
      \union {"config_schema" :> s @@ "config" :> v @@ Sound : s \in Schemas, v \in Defaults}

Project == [manifest |-> Obj(Sound), dir |-> "plain", file |-> "regular", python |-> "inside",
            instructions |-> "inside", plain |-> Absent, tokens |-> FALSE]
Contracted == [Project EXCEPT !.manifest =
                  Obj("inputs_schema" :> Counted @@ "config_schema" :> Counted @@ Sound)]
Surroundings(p) ==
    {p} \union {[p EXCEPT !.dir = dir] : dir \in {"linked", "outside", "missing"}}
        \union {[p EXCEPT !.file = file] : file \in {"linked", "missing", "unreadable"}}
        \union {[p EXCEPT !.python = python] : python \in {"outside", "missing"}}
        \union {[p EXCEPT !.instructions = place] : place \in {"outside", "missing"}}
        \union {[p EXCEPT !.plain = Obj(m), !.dir = dir] :
                    m \in {Sound, Legacy, <<>>}, dir \in {"plain", "missing"}}
        \union {[p EXCEPT !.tokens = TRUE, !.dir = dir] : dir \in {"plain", "linked"}}
        \union {[p EXCEPT !.manifest.obj = "name" :> Word("x") @@ @, !.dir = "linked"],
                [p EXCEPT !.manifest.obj = "name" :> Word("x") @@ @, !.file = "linked"]}

Contents ==
    {[Project EXCEPT !.manifest = Obj(m)] : m \in ManifestContents} \union {[Project EXCEPT !.manifest = Null]}
      \union Surroundings(Contracted) \union Surroundings([Project EXCEPT !.manifest = Obj(Legacy)])

Edited == {[Contracted EXCEPT !.python = "outside"], [Contracted EXCEPT !.file = "linked"],
           [Contracted EXCEPT !.manifest = Obj("inputs_schema" :> Listed @@ Sound)]}

Plainly == [ref |-> "project:b", inputs |-> Absent, config |-> Absent, scaffold |-> Absent]
Asked ==
    {[Plainly EXCEPT !.ref = ref] : ref \in {"diagnostic", "path", "b", "other:b", "c"}}
      \union {[Plainly EXCEPT !.inputs = v, !.ref = ref] : v \in Values, ref \in {"project:b", "path", "b"}}
      \union {[Plainly EXCEPT !.config = v, !.ref = ref] : v \in Values, ref \in {"project:b", "path"}}
      \union {[Plainly EXCEPT !.scaffold = v, !.ref = ref] :
                  v \in {Bool(TRUE), Bool(FALSE), Whole(1)}, ref \in {"project:b", "diagnostic"}}
===========================================================================
