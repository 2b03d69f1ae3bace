------------------------------ MODULE Contract ------------------------------
(***************************************************************************)
(* The contract a bundle declares, and where it is enforced: how a request *)
(* to start a run resolves its bundle (bundles/discovery.py, resolve.py),  *)
(* is checked against the static rules (bundles/validate.py) and against   *)
(* the declared schemas (host/service.py), how the worker reads the        *)
(* manifest again, twice, and how updates are checked against what it read *)
(* (host/runtime.py).  Nothing is locked: the project may be edited        *)
(* between any two of these steps.                                         *)
(*                                                                         *)
(* The project has one directory b in its discovery root, and may have a   *)
(* file b of its own.  The controller is the LoopController of a bundle    *)
(* that gives its kernel the task, as the bundles of the repository do; an *)
(* update reaches the kernel at once (module Commands has the delay).      *)
(*                                                                         *)
(* What the parser and the validator compute are parameters; the instance  *)
(* for TLC gives them the operators of the modules Manifest and Schema.    *)
(***************************************************************************)
EXTENDS Documents

CONSTANTS
    IsManifest(_),       \* parse_manifest() accepts the document
    Meets(_, _),         \* validate_value() accepts the value under the schema
    DefaultsMeet(_, _),  \* validate_declared_defaults() does
    Obeys(_, _),         \* the value satisfies the schema, by its meaning
    IsFinite(_),         \* there is no number in the value that is not finite
    Objects,             \* the JSON objects that inputs and configurations are made of
    Disks,               \* contents of the project that the runs start from
    Requests,            \* requests to start a run
    Patches,             \* the inputs that updates carry
    MaxUpdates,          \* bound: updates of a run
    Edits                \* what a project may be turned into while a run is started

(* A field of a request, or a manifest, that is not there. *)
Absent == [absent |-> TRUE]

(* dict.update(): what the right one has wins. *)
Merge(v, w) == Obj([key \in DOMAIN v.obj \union DOMAIN w.obj |->
                        IF key \in DOMAIN w.obj THEN w.obj[key] ELSE v.obj[key]])
OverridesOf(r) == IF r.config # Absent /\ IsObj(r.config) THEN r.config ELSE Obj(<<>>)

(* The manifests that runs are admitted with. *)
Manifests == {m \in {d.manifest : d \in Disks} \union {d.plain : d \in Disks} : IsManifest(m)}
-----------------------------------------------------------------------------
ASSUME ContractAssumption == MaxUpdates \in Nat

(* A directory is inside the bundle, outside or missing, and no document is *)
(* not a manifest.                                                          *)
ASSUME DisksAssumption ==
    /\ ~IsManifest(Absent)
    /\ \A d \in Disks : d.python \in {"inside", "outside", "missing"}

(* Objects has all that is given as inputs, overrides and defaults, and     *)
(* what comes of merging it.                                                *)
ASSUME ObjectsAssumption ==
    /\ Obj(<<>>) \in Objects
    /\ \A v \in Patches \union {r.inputs : r \in Requests} \union {r.config : r \in Requests} :
           v # Absent /\ IsObj(v) => v \in Objects
    /\ \A m \in Manifests : Config(m) \in Objects
    /\ \A v, w \in Objects : Merge(v, w) \in Objects

(* The validator is sound for the schemas that the parser lets a manifest   *)
(* declare, which are never null (schema.py:245-299, manifest.py:481-498).  *)
ASSUME SchemaAssumption ==
    \A m \in Manifests, label \in {"inputs_schema", "config_schema"} :
        IsStandard(m) /\ Has(m, label) =>
            /\ m.obj[label] # Null
            /\ \A v \in Objects : Meets(v, m.obj[label]) => Obeys(v, m.obj[label])

(* What a schema that does not enumerate values says of an object as a      *)
(* whole, whatever the members are.                                         *)
Enumerates(schema) == DOMAIN schema.obj \cap {"enum", "const"} # {}
OfTheWhole(v, schema) ==
    /\ Has(schema, "type") => Str("object") \in {schema.obj.type} \union Children(schema.obj.type)
    /\ Has(schema, "required") => {name.str : name \in Elements(schema.obj.required)} \subseteq DOMAIN v.obj
    /\ Has(schema, "additionalProperties") => DOMAIN v.obj \subseteq DOMAIN Properties(schema)

(* The meaning of such a schema for an object: what it says of the whole,   *)
(* and what its properties say of each member.                              *)
ASSUME MembersAssumption ==
    \A m \in Manifests :
        IsStandard(m) /\ Has(m, "inputs_schema") /\ ~Enumerates(m.obj.inputs_schema) =>
            LET schema == m.obj.inputs_schema IN
            \A v \in Objects :
                Obeys(v, schema) <=>
                    /\ OfTheWhole(v, schema)
                    /\ \A key \in DOMAIN v.obj :
                           IF key \in DOMAIN Properties(schema)
                           THEN Obeys(v.obj[key], Properties(schema)[key]) ELSE IsFinite(v.obj[key])
-----------------------------------------------------------------------------
VARIABLES
    disk,      \* what is on disk
    request,   \* the request: its reference, inputs, bundle_config and allow_scaffold
    pc,        \* how far the start is
    found,     \* the bundle that was resolved
    inputs,    \* task.inputs of the run
    guard,     \* the manifest the worker checks updates with
    config,    \* what the controller was configured with
    kernel,    \* the inputs the kernel works with
    updates,   \* how many updates were accepted
    edited     \* the project was edited after the start began

vars == <<disk, request, pc, found, inputs, guard, config, kernel, updates, edited>>

(* A bundle that was resolved: where its manifest is, and in what kind of   *)
(* file it was found; the run is created with the target of a link.         *)
Bundle(manifest, directory, at, file) ==
    [manifest |-> manifest, directory |-> directory, at |-> at, file |-> file]
NotFound == Bundle(Absent, "", "nowhere", "missing")
Diagnostic == Bundle(Absent, "", "builtin", "missing")

(* A project: the manifest and the way to it.  dir is "plain", "linked" (to *)
(* a directory x), "outside" or "missing"; file is "regular", "linked",     *)
(* "missing" or "unreadable"; python and instructions are where they        *)
(* resolve to: "inside" the bundle, "outside" or "missing"; plain is the    *)
(* manifest in the file b, or Absent; tokens is whether the bounded scan    *)
(* sees a template token.                                                   *)
Init ==
    /\ disk \in Disks /\ request \in Requests
    /\ pc = "resolve" /\ found = NotFound
    /\ inputs = Absent /\ guard = Absent /\ config = Absent /\ kernel = Absent
    /\ updates = 0 /\ edited = FALSE
-----------------------------------------------------------------------------
(* The entry of b in discover_bundles(), when it is valid. *)
EntryValid(d) ==
    /\ d.dir \in {"plain", "linked"} /\ d.file = "regular"
    /\ IsManifest(d.manifest) /\ IsStandard(d.manifest)
    /\ d.manifest.obj.name = Str("b") /\ d.instructions # "missing"

(* _resolve_name(). *)
ByName(d) ==
    IF EntryValid(d) /\ d.python # "outside"
    THEN Bundle(d.manifest, "b", "bundle", d.file) ELSE NotFound

(* _resolve_path(): links are followed, as long as they stay inside. *)
ByPath(d) ==
    IF /\ d.dir \in {"plain", "linked"} /\ d.file \in {"regular", "linked"}
       /\ IsManifest(d.manifest) /\ IsStandard(d.manifest) => d.python # "outside"
       /\ IsManifest(d.manifest)
    THEN Bundle(d.manifest, IF "linked" \in {d.dir, d.file} THEN "x" ELSE "b", "bundle", d.file)
    ELSE NotFound

PlainFile(d) == IF IsManifest(d.plain) THEN Bundle(d.plain, "root", "root", "regular") ELSE NotFound

(* resolve_bundle_ref(): a bare name that is also a file is refused. *)
Resolve(ref, d) ==
    CASE ref = "diagnostic" -> Diagnostic
      [] ref = "project:b" -> ByName(d)
      [] ref = "path" -> ByPath(d)
      [] ref = "b" -> IF d.plain = Absent THEN ByName(d)
                      ELSE IF d.dir = "missing" THEN PlainFile(d) ELSE NotFound
      [] OTHER -> NotFound

(* Mutant: the name was compared when the bundle was looked up. *)
MutantStandardErrors(b, d) ==
    \/ b.at = "root" \/ d.instructions # "inside" \/ d.python # "inside"
    \/ /\ ConfigSchema(b.manifest) # Null /\ DOMAIN Config(b.manifest).obj # {}
       /\ ~DefaultsMeet(Config(b.manifest), ConfigSchema(b.manifest))

(* _inspect_standard(). *)
StandardErrors(b, d) ==
    \/ b.manifest.obj.name # Str(b.directory)
    \/ b.at = "root" \/ d.instructions # "inside" \/ d.python # "inside"
    \/ /\ ConfigSchema(b.manifest) # Null /\ DOMAIN Config(b.manifest).obj # {}
       /\ ~DefaultsMeet(Config(b.manifest), ConfigSchema(b.manifest))

(* The scan pins the bundle directory without following a link to it, and a *)
(* scan that could not begin is no error.                                   *)
TokensSeen(b, d) == d.tokens /\ b.at = "bundle" /\ ~(d.dir = "linked" /\ b.directory = "b")

(* Mutant: a python_path that is not there is left to the loader. *)
MutantStaticOk(b, d) ==
    \/ b = Diagnostic
    \/ /\ ~TokensSeen(b, d)
       /\ IsStandard(b.manifest) => ~StandardErrors(b, [d EXCEPT !.python = "inside"])

(* validate_resolved(): what a start and a validation share. *)
StaticOk(b, d) ==
    \/ b = Diagnostic
    \/ /\ ~TokensSeen(b, d)
       /\ IF IsStandard(b.manifest) THEN ~StandardErrors(b, d)
          ELSE b.at = "bundle" => d.python # "missing"

(* validate_ref(). *)
Validates(ref, d) == Resolve(ref, d) # NotFound /\ StaticOk(Resolve(ref, d), d)
-----------------------------------------------------------------------------
GoTo(place) == pc' = place
Starting == <<request, inputs, guard, config, kernel, updates, edited>>

ResolveBundle ==
    /\ pc = "resolve"
    /\ found' = Resolve(request.ref, disk)
    /\ GoTo(IF found' = NotFound THEN "refused" ELSE "gate")
    /\ UNCHANGED <<disk, Starting>>

EnforceStaticContract ==
    /\ pc = "gate" /\ GoTo(IF StaticOk(found, disk) THEN "contract" ELSE "refused")
    /\ UNCHANGED <<disk, found, Starting>>

Overrides == OverridesOf(request)
(* What Python takes for nothing, in `x or {}`. *)
Falsy(v) == v \in {Absent, Null, Bool(FALSE), Whole(0), Float(0), Str(""), Arr(<<>>), Obj(<<>>)}

InputsFit(v, m) ==
    InputsSchema(m) # Null =>
        LET given == IF v = Absent THEN Obj(<<>>) ELSE v IN
        IsObj(given) /\ Meets(given, InputsSchema(m))

(* Mutant: what is checked is what the request gives. *)
MutantConfigFits(m) == ConfigSchema(m) # Null => Meets(Overrides, ConfigSchema(m))
ConfigFits(m) == ConfigSchema(m) # Null => Meets(Merge(Config(m), Overrides), ConfigSchema(m))

(* _enforce_declared_contract(), and _optional_boolean() before it. *)
ContractRefusal(m) ==
    CASE request.scaffold # Absent /\ ~Flag(request.scaffold) -> "scaffold"
      [] m = Absent -> "none"
      [] Scaffold(m) /\ request.scaffold # Bool(TRUE) -> "scaffold"
      [] request.config # Absent /\ ~IsObj(request.config)
             /\ (IsStandard(m) \/ ~Falsy(request.config)) -> "object"
      [] IsStandard(m) /\ ~InputsFit(request.inputs, m) -> "inputs"
      [] IsStandard(m) /\ ~ConfigFits(m) -> "config"
      [] OTHER -> "none"

EnforceDeclaredContract ==
    /\ pc = "contract"
    /\ LET refusal == ContractRefusal(found.manifest) IN
       IF refusal = "none" THEN GoTo("created") /\ inputs' = request.inputs
       ELSE /\ GoTo(IF refusal = "config" THEN "refused_config" ELSE "refused")
            /\ UNCHANGED inputs
    /\ UNCHANGED <<disk, request, found, guard, config, kernel, updates, edited>>
-----------------------------------------------------------------------------
(* load_manifest() of the path that the run was created with, which is not *)
(* a link when the project is as it was; a link that took the place of the *)
(* file is not followed.                                                   *)
Readable(follow) == disk.file \in {"regular"} \union follow \/ (found.file = "linked" /\ ~edited)
ReadAgain(follow) ==
    CASE found.at = "root" -> found.manifest
      [] found.at = "bundle" /\ Readable(follow) /\ IsManifest(disk.manifest) -> disk.manifest
      [] OTHER -> Absent

(* load_manifest_for_run(): what is unreadable is left to the loader. *)
ReadManifest ==
    /\ pc = "created"
    /\ guard' = ReadAgain({}) /\ GoTo("read")
    /\ UNCHANGED <<disk, request, found, inputs, config, kernel, updates, edited>>

(* Mutant: the python_path was checked when the run was started. *)
MutantPathOk(m) == found.at = "root" \/ disk.python # "missing"
(* load_controller() resolves the path before it reads the file, and checks *)
(* the python_path of what it read; the bundle makes a kernel of the task.  *)
PathOk(m) == found.at = "root" \/ disk.python = "inside" \/ (disk.python = "outside" /\ ~IsStandard(m))

LoadController ==
    /\ pc = "read"
    /\ LET m == ReadAgain({"linked"}) IN
       IF found = Diagnostic THEN GoTo("running") /\ UNCHANGED <<config, kernel>>
       ELSE IF m = Absent \/ ~PathOk(m) THEN GoTo("unloadable") /\ UNCHANGED <<config, kernel>>
       ELSE IF ~Falsy(inputs) /\ ~IsObj(inputs) THEN GoTo("crashed") /\ UNCHANGED <<config, kernel>>
       ELSE /\ GoTo("running")
            /\ config' = Merge(Config(m), Overrides)
            /\ kernel' = IF Falsy(inputs) THEN Obj(<<>>) ELSE inputs
    /\ UNCHANGED <<disk, request, found, inputs, guard, updates, edited>>

(* Mutant: the inputs of an update are only asked to be an object. *)
MutantPatchOk(v) == guard # Absent /\ InputsSchema(guard) # Null => IsObj(v)
(* _validate_declared_task_patch(). *)
PatchOk(v) == guard # Absent => InputsFit(v, guard)

(* An update replaces the inputs of the run; the kernel merges them into    *)
(* its own, and the engine fails on what is not an object.                  *)
Update(v) ==
    /\ pc = "running" /\ found # Diagnostic /\ updates < MaxUpdates
    /\ PatchOk(v)
    /\ inputs' = v /\ updates' = updates + 1
    /\ IF ~Falsy(v) /\ ~IsObj(v) THEN GoTo("crashed") /\ UNCHANGED kernel
       ELSE /\ kernel' = Merge(kernel, IF Falsy(v) THEN Obj(<<>>) ELSE v)
            /\ UNCHANGED pc
    /\ UNCHANGED <<disk, request, found, guard, config, edited>>

(* Somebody changes the project while the run is started. *)
Edit ==
    /\ ~edited /\ pc \in {"gate", "contract", "created", "read"}
    /\ \E d \in Edits : disk' = [d EXCEPT !.dir = disk.dir, !.plain = disk.plain]
    /\ edited' = TRUE
    /\ UNCHANGED <<request, pc, found, inputs, guard, config, kernel, updates>>

Next ==
    \/ ResolveBundle \/ EnforceStaticContract \/ EnforceDeclaredContract
    \/ ReadManifest \/ LoadController
    \/ \E v \in Patches : Update(v)
    \/ Edit

Spec == Init /\ [][Next]_vars
-----------------------------------------------------------------------------
(* A run of a bundle that declares a contract, in a project left alone. *)
UnderContract(label) ==
    /\ pc = "running" /\ ~edited /\ found # Diagnostic
    /\ IsStandard(found.manifest) /\ Has(found.manifest, label)
Declared(label) == found.manifest.obj[label]
Given == IF inputs = Absent THEN Obj(<<>>) ELSE inputs

(* The inputs a run was started with, those of every update it accepted, and *)
(* the configuration its controller got, which merges the defaults of the    *)
(* manifest as the worker read it with the overrides of the request, satisfy *)
(* the schemas the bundle declares -- by the meaning of these schemas, and   *)
(* also when they are declared as null, or as something else that cannot be  *)
(* enforced: then no run exists (service.py:816-885, bundle-contract.md:41). *)
RunsFitTheirContract ==
    /\ UnderContract("inputs_schema") => IsObj(Given) /\ Obeys(Given, Declared("inputs_schema"))
    /\ UnderContract("config_schema") => Obeys(config, Declared("config_schema"))

(* The kernel merges the inputs of an update into those it has and never     *)
(* drops one (core/reduce.py:55).  What it works with still satisfies the    *)
(* schema of the inputs, unless that constrains the inputs as a whole.       *)
KernelInputsFit ==
    UnderContract("inputs_schema")
        /\ ~Enumerates(Declared("inputs_schema"))
    => Obeys(kernel, Declared("inputs_schema"))

(* A bundle in its place, reached without links, is admitted by its name    *)
(* exactly when it is admitted, as a standard bundle, by its path: neither  *)
(* is a way around a rule (validate.py:181-183).                            *)
AddressDoesNotMatter ==
    disk.dir = "plain" /\ disk.file = "regular" =>
        (Validates("project:b", disk) <=> Validates("path", disk) /\ IsStandard(disk.manifest))

(* What a start admits the worker can load: in a project left alone, no run *)
(* is created that ends for its manifest or its python_path.  (Importing    *)
(* the module is the bundle's affair.)                                      *)
AdmittedBundlesLoad == ~edited => pc # "unloadable"

(* However the project is edited while a run is started, a controller of a  *)
(* standard bundle is imported from inside its own directory: what was      *)
(* checked of the python_path when the bundle was resolved, and by the      *)
(* static gate, is stale by then (runtime.py:374-379).                      *)
LoadedIsSelfContained ==
    [][LoadController /\ pc' = "running" /\ found.at = "bundle" /\ IsStandard(disk.manifest)
           => disk.python = "inside"]_vars
-----------------------------------------------------------------------------
(* What makes those properties inductive.  In a project that nobody edits,  *)
(* the bundle is the one that is on disk and has passed the static gate ... *)
Found == pc \notin {"resolve", "refused"} => found = Resolve(request.ref, disk) /\ found # NotFound
Admitted == pc \notin {"resolve", "refused", "gate"} => StaticOk(found, disk)

(* ... the run and its updates have passed its schemas ...                  *)
Enforced ==
    pc \in {"created", "read", "running"} /\ found # Diagnostic /\ IsStandard(found.manifest) =>
        InputsFit(inputs, found.manifest) /\ ConfigFits(found.manifest)

(* ... and the worker has read the same manifest again. *)
ReadsTheSame == pc \in {"read", "running"} /\ found # Diagnostic => guard = found.manifest
Configured ==
    pc = "running" /\ found # Diagnostic => config = Merge(Config(found.manifest), Overrides)

LeftAlone ==
    /\ disk \in Disks /\ pc # "unloadable"
    /\ Found /\ Admitted /\ Enforced /\ ReadsTheSame /\ Configured /\ KernelInputsFit

(* Edited or not, inputs are what somebody gave. *)
Inputs == {Absent} \union Patches \union {r.inputs : r \in Requests}
GivenBySomebody ==
    /\ inputs \in Inputs
    /\ pc = "running" /\ found # Diagnostic => kernel \in Objects

ContractInv ==
    /\ request \in Requests /\ GivenBySomebody
    /\ ~edited => LeftAlone
=============================================================================
