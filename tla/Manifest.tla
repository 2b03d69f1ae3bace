------------------------------ MODULE Manifest ------------------------------
(***************************************************************************)
(* bundles/manifest.py: which JSON documents are manifests.  A document    *)
(* that parse_manifest() raises for is not WellFormed.  Patterns are given *)
(* by the texts of the model that match them.                              *)
(***************************************************************************)
EXTENDS Schema

CONSTANTS
    Names, Entrypoints, Versions, Variables,   \* texts that match the patterns
    MaxManifestDepth, MaxTextChars             \* MAX_MANIFEST_DEPTH, MAX_TEXT_CHARS

ASSUME ManifestAssumption == MaxManifestDepth \in Nat /\ MaxTextChars \in Nat

(* _require_text() and _require_identity(): nothing is trimmed. *)
Surrounded == {" ", " b", "b "}
Text(v) == /\ KindOf(v) = "str" /\ v.str \notin Surrounded \union {""}
           /\ Len(v.str) <= MaxTextChars
TextList(v) == KindOf(v) = "arr" /\ \A item \in Elements(v) : Text(item)

(* _optional_schema(): what is declared can be enforced, and null cannot. *)
Enforceable(schema) == IsObj(schema) /\ ValidDefinition(schema)

(* What _parse_standard() allows in the objects of a manifest. *)
Sections == [output       |-> [schema |-> "schema", evidence |-> "text", description |-> "text"],
             runtime      |-> [python |-> "text", profile |-> "text", notes |-> "text",
                               requires_network |-> "flag"],
             dependencies |-> [python |-> "list", system |-> "list", credential_env |-> "variables"],
             resources    |-> [keys |-> "list", exclusive |-> "flag", notes |-> "text"],
             stop         |-> [grace_seconds |-> "grace", release |-> "text", notes |-> "text"],
             verification |-> [independent |-> "flag", evidence |-> "text", notes |-> "text"]]

EntryOk(shape, v) ==
    CASE shape = "text" -> Text(v)
      [] shape = "flag" -> Flag(v)
      [] shape = "list" -> TextList(v)
      [] shape = "schema" -> Enforceable(v)
      [] shape = "variables" -> TextList(v) /\ \A item \in Elements(v) : item.str \in Variables
      [] shape = "grace" -> KindOf(v) \in {"int", "float"} /\ Magnitude(v) \in 1..30

(* _optional_object(): a section that is there is an object, never null. *)
SectionOk(m, section) ==
    LET v == m.obj[section] IN
    /\ IsObj(v) /\ DOMAIN v.obj \subseteq DOMAIN Sections[section]
    /\ \A key \in DOMAIN v.obj : EntryOk(Sections[section][key], v.obj[key])

RequiredFields == {"schema_version", "name", "version", "description", "entrypoint"}
StandardFields == RequiredFields \union DOMAIN Sections \union
                  {"when_to_use", "python_path", "config", "inputs_schema", "config_schema",
                   "authorizations", "scaffold"}

(* _parse_standard(): the fields of manifest v2 are a closed set. *)
StandardOk(m) ==
    /\ RequiredFields \subseteq DOMAIN m.obj /\ DOMAIN m.obj \subseteq StandardFields
    /\ Text(m.obj.name) /\ m.obj.name.str \in Names
    /\ Text(m.obj.version) /\ m.obj.version.str \in Versions
    /\ Text(m.obj.description)
    /\ Has(m, "when_to_use") => Text(m.obj.when_to_use)
    /\ \A label \in {"inputs_schema", "config_schema"} : Has(m, label) => Enforceable(m.obj[label])
    /\ \A section \in DOMAIN Sections : Has(m, section) => SectionOk(m, section)
    /\ Has(m, "authorizations") => TextList(m.obj.authorizations)
    /\ Has(m, "scaffold") => Flag(m.obj.scaffold)

(* parse_manifest(): the version is explicit, and decides about the rest. *)
WellFormed(m) ==
    /\ IsObj(m) /\ NestsWithin(m, MaxManifestDepth) /\ AllFinite(m)
    /\ Has(m, "schema_version") /\ m.obj.schema_version \in {Whole(1), Whole(2)}
    /\ KindOf(Member(m, "entrypoint", Null)) = "str" /\ m.obj.entrypoint.str \in Entrypoints
    /\ LET python_path == Member(m, "python_path", Str(".")) IN
       KindOf(python_path) = "str" /\ python_path.str \notin Surrounded \union {""}
    /\ IsObj(Config(m))
    /\ IsStandard(m) => StandardOk(m)
=============================================================================
