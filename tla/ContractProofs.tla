--------------------------- MODULE ContractProofs ---------------------------
(***************************************************************************)
(* Proofs of what Contract states, for every parser and validator that     *)
(* satisfy its assumptions, every project and every request.               *)
(*                                                                         *)
(* The argument follows the start of a run.  Until somebody edits the      *)
(* project the bundle that was found is the one on disk and has passed the *)
(* static gate (Admitted), so that the worker can load it, and what the    *)
(* worker reads again is what was found (ReadsTheSame).  The declared      *)
(* contract was enforced before the run was created, every update was      *)
(* checked with the same schema (Enforced), and merging inputs preserves   *)
(* what a schema says of the whole and of each member (MergeObeys).        *)
(***************************************************************************)
EXTENDS Contract, TLAPS

(* A value is of the kind of its only field. *)
LEMMA Kinds ==
    /\ \A f : KindOf(Obj(f)) = "obj"
    /\ \A v \in {Absent, Null, Bool(FALSE), Whole(0), Float(0), Str(""), Arr(<<>>)} : ~IsObj(v)
<1>1. \A f : DOMAIN Obj(f) = {"obj"}  BY DEF Obj
<1>2. \A f : KindOf(Obj(f)) = "obj"
  <2>. TAKE f
  <2>1. \A kind \in DOMAIN Obj(f) : kind = "obj"  BY <1>1
  <2>2. \E kind \in DOMAIN Obj(f) : TRUE  BY <1>1
  <2>. QED  BY <2>1, <2>2 DEF KindOf
<1>3. ASSUME NEW name, NEW v, DOMAIN v = {name}, name # "obj"  PROVE ~IsObj(v)
  <2>1. KindOf(v) \in DOMAIN v  BY <1>3 DEF KindOf
  <2>. QED  BY <1>3, <2>1 DEF IsObj
<1>4. /\ DOMAIN Absent = {"absent"} /\ DOMAIN Null = {"null"} /\ DOMAIN Bool(FALSE) = {"bool"}
      /\ DOMAIN Whole(0) = {"int"} /\ DOMAIN Float(0) = {"float"} /\ DOMAIN Str("") = {"str"}
      /\ DOMAIN Arr(<<>>) = {"arr"}
  BY DEF Absent, Null, Bool, Whole, Float, Str, Arr
<1>5. ASSUME NEW v \in {Absent, Null, Bool(FALSE), Whole(0), Float(0), Str(""), Arr(<<>>)}  PROVE ~IsObj(v)
  <2>1. PICK name \in {"absent", "null", "bool", "int", "float", "str", "arr"} : DOMAIN v = {name}
    BY <1>4
  <2>2. name # "obj"  BY <2>1
  <2>. QED  BY <1>3, <2>1, <2>2, Zenon
<1>. QED  BY <1>2, <1>5

(* Of what Python takes for nothing, only {} is an object. *)
LEMMA FalsyObjects == \A v : Falsy(v) /\ IsObj(v) => v = Obj(<<>>)
BY Kinds DEF Falsy

(* Merging objects: the keys of both, each with the value of the right one *)
(* when that has it.                                                       *)
LEMMA Merged ==
    ASSUME NEW v, NEW w
    PROVE  /\ DOMAIN Merge(v, w).obj = DOMAIN v.obj \union DOMAIN w.obj
           /\ \A key \in DOMAIN Merge(v, w).obj :
                  Merge(v, w).obj[key] = IF key \in DOMAIN w.obj THEN w.obj[key] ELSE v.obj[key]
BY DEF Merge, Obj

(* The schemas of the inputs that do not enumerate the values of the whole. *)
Memberwise == {m \in Manifests : /\ IsStandard(m) /\ Has(m, "inputs_schema")
                                 /\ ~Enumerates(m.obj.inputs_schema)}

(* Two objects that satisfy such a schema still do when they are merged:    *)
(* the kernel may keep what an update leaves out (core/reduce.py:55).       *)
LEMMA MergeObeys ==
    ASSUME NEW m \in Memberwise, NEW v \in Objects, NEW w \in Objects,
           Obeys(v, m.obj.inputs_schema), Obeys(w, m.obj.inputs_schema)
    PROVE  Obeys(Merge(v, w), m.obj.inputs_schema)
<1>. DEFINE schema == m.obj.inputs_schema
            OfMember(u, key) == IF key \in DOMAIN Properties(schema)
                                THEN Obeys(u.obj[key], Properties(schema)[key]) ELSE IsFinite(u.obj[key])
<1>1. \A u \in Objects : Obeys(u, schema) <=>
          OfTheWhole(u, schema) /\ \A key \in DOMAIN u.obj : OfMember(u, key)
  BY MembersAssumption DEF Memberwise
<1>2. Merge(v, w) \in Objects  BY ObjectsAssumption
<1>3. /\ OfTheWhole(v, schema) /\ \A key \in DOMAIN v.obj : OfMember(v, key)
      /\ OfTheWhole(w, schema) /\ \A key \in DOMAIN w.obj : OfMember(w, key)
  BY <1>1
<1>4. OfTheWhole(Merge(v, w), schema)
  BY <1>3, Merged DEF OfTheWhole
<1>5. ASSUME NEW key \in DOMAIN Merge(v, w).obj  PROVE OfMember(Merge(v, w), key)
  <2>1. CASE key \in DOMAIN w.obj
    <3>1. Merge(v, w).obj[key] = w.obj[key]  BY <2>1, Merged
    <3>. QED  BY <1>3, <2>1, <3>1
  <2>2. CASE key \notin DOMAIN w.obj
    <3>1. Merge(v, w).obj[key] = v.obj[key] /\ key \in DOMAIN v.obj  BY <2>2, Merged
    <3>. QED  BY <1>3, <3>1
  <2>. QED  BY <2>1, <2>2
<1>. QED  BY <1>1, <1>2, <1>4, <1>5
-----------------------------------------------------------------------------
(* The fields of a bundle. *)
LEMMA Fields ==
    ASSUME NEW m, NEW directory, NEW at, NEW file, NEW b, b = Bundle(m, directory, at, file)
    PROVE  b.manifest = m /\ b.directory = directory /\ b.at = at /\ b.file = file
BY DEF Bundle

(* No manifest is where these are. *)
LEMMA Elsewhere == NotFound.at = "nowhere" /\ Diagnostic.at = "builtin"
BY DEF NotFound, Diagnostic, Bundle

(* A bundle that is found, in the project as it is. *)
LEMMA Resolution ==
    ASSUME NEW ref, NEW d \in Disks, Resolve(ref, d) # NotFound, Resolve(ref, d) # Diagnostic
    PROVE  LET b == Resolve(ref, d) IN
           /\ IsManifest(b.manifest) /\ b.manifest \in Manifests
           /\ \/ b.at = "root"
              \/ /\ b.at = "bundle" /\ b.manifest = d.manifest
                 /\ b.file = d.file /\ d.file \in {"regular", "linked"}
<1>. DEFINE b == Resolve(ref, d)
<1>1. b \in {ByName(d), ByPath(d), PlainFile(d)}  BY DEF Resolve
<1>2. CASE b = ByName(d)
  <2>1. EntryValid(d) /\ b = Bundle(d.manifest, "b", "bundle", d.file)  BY <1>2 DEF ByName
  <2>. QED  BY <2>1 DEF EntryValid, Bundle, Manifests
<1>3. CASE b = ByPath(d)
  <2>1. /\ d.file \in {"regular", "linked"} /\ IsManifest(d.manifest)
        /\ \E directory : b = Bundle(d.manifest, directory, "bundle", d.file)
    BY <1>3 DEF ByPath
  <2>2. b.manifest = d.manifest /\ b.at = "bundle" /\ b.file = d.file  BY <2>1, Fields
  <2>. QED  BY <2>1, <2>2 DEF Manifests
<1>4. CASE b = PlainFile(d)
  <2>1. IsManifest(d.plain) /\ b = Bundle(d.plain, "root", "root", "regular")  BY <1>4 DEF PlainFile
  <2>. QED  BY <2>1 DEF Bundle, Manifests
<1>. QED  BY <1>1, <1>2, <1>3, <1>4

(* What passed the static gate can be loaded, if the project is as it was.  *)
LEMMA Loadable ==
    ASSUME NEW ref, NEW d \in Disks, NEW b, b = Resolve(ref, d), b # NotFound, b # Diagnostic,
           StaticOk(b, d)
    PROVE  b.at = "root" \/ d.python = "inside" \/ (d.python = "outside" /\ ~IsStandard(b.manifest))
<1>1. b.at = "root" \/ b.at = "bundle"  BY Resolution
<1>2. CASE b.at = "bundle" /\ IsStandard(b.manifest)
  BY <1>2 DEF StaticOk, StandardErrors
<1>3. CASE b.at = "bundle" /\ ~IsStandard(b.manifest)
  <2>1. d.python # "missing"  BY <1>3 DEF StaticOk
  <2>. QED  BY <1>3, <2>1, DisksAssumption
<1>. QED  BY <1>1, <1>2, <1>3
-----------------------------------------------------------------------------
(* The start of a run satisfies the invariant. *)
LEMMA InitContractInv == Init => ContractInv
BY DEF Init, ContractInv, LeftAlone, Found, Admitted, Enforced, ReadsTheSame, Configured,
       KernelInputsFit, UnderContract, GivenBySomebody, Inputs

(* A bundle that was found, and is not the built-in one, has a manifest.    *)
LEMMA FoundManifests ==
    ASSUME LeftAlone, pc \notin {"resolve", "refused"}, found # Diagnostic
    PROVE  found.manifest \in Manifests
BY Resolution DEF LeftAlone, Found

(* Inputs that fit the contract of a manifest satisfy the schema.           *)
LEMMA FittingInputsObey ==
    ASSUME NEW m \in Manifests, IsStandard(m), Has(m, "inputs_schema"),
           NEW v \in Inputs, InputsFit(v, m)
    PROVE  LET given == IF v = Absent THEN Obj(<<>>) ELSE v IN
           IsObj(given) /\ given \in Objects /\ Obeys(given, m.obj.inputs_schema)
<1>. DEFINE given == IF v = Absent THEN Obj(<<>>) ELSE v
<1>1. InputsSchema(m) = m.obj.inputs_schema /\ m.obj.inputs_schema # Null
  <2>1. InputsSchema(m) = m.obj["inputs_schema"]  BY DEF InputsSchema, Member, Has
  <2>. QED  BY <2>1, SchemaAssumption
<1>2. IsObj(given) /\ Meets(given, m.obj.inputs_schema)
  BY <1>1 DEF InputsFit
<1>3. given \in Objects
  BY <1>2, ObjectsAssumption DEF Inputs
<1>4. Obeys(given, m.obj["inputs_schema"])
  BY <1>2, <1>3, SchemaAssumption
<1>. QED  BY <1>2, <1>3, <1>4

(* A configuration that fits the contract of a manifest satisfies the schema. *)
LEMMA FittingConfigObeys ==
    ASSUME NEW m \in Manifests, IsStandard(m), Has(m, "config_schema"),
           request \in Requests, ConfigFits(m)
    PROVE  Obeys(Merge(Config(m), Overrides), m.obj.config_schema)
<1>1. ConfigSchema(m) = m.obj["config_schema"] /\ m.obj["config_schema"] # Null
  BY SchemaAssumption DEF ConfigSchema, Member, Has
<1>2. Overrides \in Objects
  BY ObjectsAssumption DEF Overrides, OverridesOf
<1>3. Merge(Config(m), Overrides) \in Objects
  BY <1>2, ObjectsAssumption
<1>. QED  BY <1>1, <1>3, SchemaAssumption DEF ConfigFits
-----------------------------------------------------------------------------
(* The bundle is resolved in the project the run starts from. *)
LEMMA ResolveBundleKeeps == ContractInv /\ ResolveBundle => ContractInv'
<1>. SUFFICES ASSUME ContractInv, ResolveBundle  PROVE ContractInv'
  OBVIOUS
<1>1. UNCHANGED <<disk, request, inputs, guard, config, kernel, updates, edited>>
      /\ pc' \in {"refused", "gate"} /\ (pc' = "gate" => found' # NotFound)
      /\ found' = Resolve(request.ref, disk)
  BY DEF ResolveBundle, Starting, GoTo
<1>2. GivenBySomebody'  BY <1>1 DEF ContractInv, GivenBySomebody, Inputs
<1>3. ~edited' => LeftAlone'
  BY <1>1 DEF ContractInv, LeftAlone, Found, Admitted, Enforced, ReadsTheSame, Configured,
              KernelInputsFit, UnderContract
<1>. QED  BY <1>1, <1>2, <1>3 DEF ContractInv

(* The static gate is passed by what it admits. *)
LEMMA EnforceStaticContractKeeps == ContractInv /\ EnforceStaticContract => ContractInv'
<1>. SUFFICES ASSUME ContractInv, EnforceStaticContract  PROVE ContractInv'
  OBVIOUS
<1>1. UNCHANGED <<disk, request, found, inputs, guard, config, kernel, updates, edited>>
      /\ pc = "gate" /\ pc' \in {"refused", "contract"} /\ (pc' = "contract" => StaticOk(found, disk))
  BY DEF EnforceStaticContract, Starting, GoTo
<1>2. GivenBySomebody'  BY <1>1 DEF ContractInv, GivenBySomebody, Inputs
<1>3. ~edited' => LeftAlone'
  BY <1>1 DEF ContractInv, LeftAlone, Found, Admitted, Enforced, ReadsTheSame, Configured,
              KernelInputsFit, UnderContract
<1>. QED  BY <1>1, <1>2, <1>3 DEF ContractInv

(* A run is created only with inputs and a configuration that fit. *)
LEMMA EnforceDeclaredContractKeeps == ContractInv /\ EnforceDeclaredContract => ContractInv'
<1>. SUFFICES ASSUME ContractInv, EnforceDeclaredContract  PROVE ContractInv'
  OBVIOUS
<1>1. /\ UNCHANGED <<disk, request, found, guard, config, kernel, updates, edited>>
      /\ pc = "contract" /\ pc' \in {"created", "refused_config", "refused"}
      /\ inputs' \in {inputs, request.inputs}
      /\ pc' = "created" => inputs' = request.inputs /\ ContractRefusal(found.manifest) = "none"
  BY DEF EnforceDeclaredContract, GoTo
<1>2. GivenBySomebody'  BY <1>1 DEF ContractInv, GivenBySomebody, Inputs
<1>3. ASSUME ~edited', pc' = "created", found # Diagnostic, IsStandard(found.manifest)
      PROVE  InputsFit(request.inputs, found.manifest) /\ ConfigFits(found.manifest)
  <2>1. found.manifest \in Manifests  BY <1>1, <1>3, FoundManifests DEF ContractInv
  <2>2. found.manifest # Absent  BY <2>1, DisksAssumption DEF Manifests
  <2>. QED  BY <1>1, <1>3, <2>2 DEF ContractRefusal
<1>4. ~edited' => Enforced'
  BY <1>1, <1>3 DEF Enforced, InputsFit, ConfigFits, Overrides, OverridesOf
<1>5. ~edited' => LeftAlone'
  BY <1>1, <1>4 DEF ContractInv, LeftAlone, Found, Admitted, ReadsTheSame, Configured,
                    KernelInputsFit, UnderContract
<1>. QED  BY <1>1, <1>2, <1>5 DEF ContractInv

(* In a project left alone, what is read again is what was found. *)
LEMMA ReadingFindsTheSame ==
    ASSUME LeftAlone, ~edited, pc \notin {"resolve", "refused"}, found # Diagnostic, NEW follow
    PROVE  ReadAgain(follow) = found.manifest
<1>1. \/ found.at = "root"
      \/ /\ found.at = "bundle" /\ found.manifest = disk.manifest
         /\ found.file = disk.file /\ disk.file \in {"regular", "linked"}
  BY Resolution DEF LeftAlone, Found
<1>2. found.at = "bundle" => Readable(follow) /\ IsManifest(disk.manifest)
  BY <1>1, FoundManifests DEF Readable, Manifests
<1>. QED  BY <1>1, <1>2 DEF ReadAgain

(* The worker guards updates with the manifest that was found. *)
LEMMA ReadManifestKeeps == ContractInv /\ ReadManifest => ContractInv'
<1>. SUFFICES ASSUME ContractInv, ReadManifest  PROVE ContractInv'
  OBVIOUS
<1>1. UNCHANGED <<disk, request, found, inputs, config, kernel, updates, edited>>
      /\ pc = "created" /\ pc' = "read" /\ guard' = ReadAgain({})
  BY DEF ReadManifest, GoTo
<1>2. GivenBySomebody'  BY <1>1 DEF ContractInv, GivenBySomebody, Inputs
<1>3. ~edited' /\ found # Diagnostic => guard' = found.manifest
  BY <1>1, ReadingFindsTheSame DEF ContractInv
<1>4. ~edited' => Enforced'
  BY <1>1 DEF ContractInv, LeftAlone, Enforced, InputsFit, ConfigFits, Overrides, OverridesOf
<1>5. ~edited' => LeftAlone'
  BY <1>1, <1>3, <1>4 DEF ContractInv, LeftAlone, Found, Admitted, ReadsTheSame, Configured,
                          KernelInputsFit, UnderContract
<1>. QED  BY <1>1, <1>2, <1>5 DEF ContractInv

(* In a project left alone the controller is loaded, configured with what   *)
(* was checked, and its kernel starts with the inputs that were checked.    *)
LEMMA LoadControllerKeeps == ContractInv /\ LoadController => ContractInv'
<1>. SUFFICES ASSUME ContractInv, LoadController  PROVE ContractInv'
  OBVIOUS
<1>. DEFINE m == ReadAgain({"linked"})
            Loads == /\ found # Diagnostic /\ m # Absent /\ PathOk(m)
                     /\ Falsy(inputs) \/ IsObj(inputs)
<1>1. /\ UNCHANGED <<disk, request, found, inputs, guard, updates, edited>>
      /\ pc = "read" /\ pc' \in {"running", "unloadable", "crashed"}
      /\ pc' = "unloadable" => found # Diagnostic /\ (m = Absent \/ ~PathOk(m))
      /\ pc' = "running" /\ found # Diagnostic =>
             Loads /\ config' = Merge(Config(m), Overrides)
                   /\ kernel' = IF Falsy(inputs) THEN Obj(<<>>) ELSE inputs
  BY DEF LoadController, GoTo
<1>2. GivenBySomebody'
  <2>1. inputs' \in Inputs'  BY <1>1 DEF ContractInv, GivenBySomebody, Inputs
  <2>2. ASSUME pc' = "running", found # Diagnostic  PROVE kernel' \in Objects
    <3>1. CASE Falsy(inputs)  BY <1>1, <2>2, <3>1, ObjectsAssumption
    <3>2. CASE ~Falsy(inputs)
      <4>1. IsObj(inputs) /\ inputs # Absent /\ kernel' = inputs  BY <1>1, <2>2, <3>2 DEF Falsy
      <4>. QED  BY <4>1, ObjectsAssumption DEF ContractInv, GivenBySomebody, Inputs
    <3>. QED  BY <3>1, <3>2
  <2>. QED  BY <1>1, <2>1, <2>2 DEF GivenBySomebody
<1>3. ASSUME ~edited', found # Diagnostic  PROVE m = found.manifest /\ m \in Manifests
  BY <1>1, <1>3, ReadingFindsTheSame, FoundManifests DEF ContractInv
<1>4. ~edited' => pc' # "unloadable"
  <2>. SUFFICES ASSUME ~edited', found # Diagnostic  PROVE m # Absent /\ PathOk(m)
    BY <1>1
  <2>1. m # Absent  BY <1>3, DisksAssumption DEF Manifests
  <2>2. PathOk(m)  BY <1>1, <1>3, Loadable DEF ContractInv, LeftAlone, Found, Admitted, PathOk
  <2>. QED  BY <2>1, <2>2
<1>5. ~edited' => Enforced' /\ Configured' /\ ReadsTheSame'
  BY <1>1, <1>3 DEF ContractInv, LeftAlone, Enforced, Configured, ReadsTheSame, InputsFit, ConfigFits,
                    Overrides, OverridesOf
<1>6. ~edited' => KernelInputsFit'
  <2>. SUFFICES ASSUME ~edited', UnderContract("inputs_schema")'
                PROVE  Obeys(kernel', found.manifest.obj["inputs_schema"])
    BY <1>1 DEF KernelInputsFit, Declared
  <2>1. found # Diagnostic /\ IsStandard(found.manifest) /\ Has(found.manifest, "inputs_schema")
        /\ pc' = "running"
    BY <1>1 DEF UnderContract
  <2>. DEFINE given == IF inputs = Absent THEN Obj(<<>>) ELSE inputs
  <2>2. inputs \in Inputs /\ InputsFit(inputs, found.manifest)
    BY <1>1, <2>1 DEF ContractInv, LeftAlone, GivenBySomebody, Enforced
  <2>3. IsObj(given) /\ Obeys(given, found.manifest.obj["inputs_schema"])
    BY <1>3, <2>1, <2>2, FittingInputsObey
  <2>4. kernel' = given
    <3>1. CASE inputs = Absent  BY <1>1, <2>1, <3>1 DEF Falsy
    <3>2. CASE inputs # Absent  BY <1>1, <2>1, <2>3, <3>2, FalsyObjects
    <3>. QED  BY <3>1, <3>2
  <2>. QED  BY <2>3, <2>4
<1>7. ~edited' => LeftAlone'
  BY <1>1, <1>4, <1>5, <1>6 DEF ContractInv, LeftAlone, Found, Admitted
<1>. QED  BY <1>1, <1>2, <1>7 DEF ContractInv

(* An update is checked with the schema that the inputs were checked with. *)
LEMMA UpdateKeeps == ASSUME NEW v \in Patches, ContractInv, Update(v)  PROVE ContractInv'
<1>1. /\ UNCHANGED <<disk, request, found, guard, config, edited>>
      /\ pc = "running" /\ pc' \in {"running", "crashed"} /\ found # Diagnostic
      /\ PatchOk(v) /\ inputs' = v
      /\ pc' = "running" => /\ Falsy(v) \/ IsObj(v)
                            /\ kernel' = Merge(kernel, IF Falsy(v) THEN Obj(<<>>) ELSE v)
  BY DEF Update, GoTo
<1>. DEFINE patch == IF Falsy(v) THEN Obj(<<>>) ELSE v
<1>2. v \in Inputs /\ (pc' = "running" => patch \in Objects)
  BY <1>1, ObjectsAssumption DEF Inputs, Falsy
<1>3. kernel \in Objects  BY <1>1 DEF ContractInv, GivenBySomebody
<1>4. GivenBySomebody'
  <2>1. pc' = "running" => kernel' \in Objects  BY <1>1, <1>2, <1>3, ObjectsAssumption
  <2>. QED  BY <1>1, <1>2, <2>1 DEF GivenBySomebody, Inputs
<1>5. ASSUME ~edited'  PROVE found.manifest \in Manifests /\ guard = found.manifest
  BY <1>1, <1>5, FoundManifests DEF ContractInv, LeftAlone, ReadsTheSame
<1>6. ~edited' => InputsFit(v, found.manifest)
  BY <1>1, <1>5, DisksAssumption DEF PatchOk, Manifests
<1>7. ~edited' => Enforced' /\ Configured' /\ ReadsTheSame'
  BY <1>1, <1>6 DEF ContractInv, LeftAlone, Enforced, Configured, ReadsTheSame, InputsFit, ConfigFits,
                    Overrides, OverridesOf
<1>8. ~edited' => KernelInputsFit'
  <2>. SUFFICES ASSUME ~edited', UnderContract("inputs_schema")',
                       ~Enumerates(found.manifest.obj["inputs_schema"])
                PROVE  Obeys(kernel', found.manifest.obj["inputs_schema"])
    BY <1>1 DEF KernelInputsFit, Declared
  <2>1. UnderContract("inputs_schema") /\ pc' = "running" /\ IsStandard(found.manifest)
        /\ Has(found.manifest, "inputs_schema")
    BY <1>1 DEF UnderContract
  <2>2. Obeys(kernel, found.manifest.obj["inputs_schema"])
    BY <1>1, <2>1 DEF ContractInv, LeftAlone, KernelInputsFit, Declared
  <2>. DEFINE given == IF v = Absent THEN Obj(<<>>) ELSE v
  <2>3. IsObj(given) /\ Obeys(given, found.manifest.obj["inputs_schema"])
    BY <1>2, <1>5, <1>6, <2>1, FittingInputsObey
  <2>4. patch = given
    <3>1. CASE v = Absent  BY <3>1 DEF Falsy
    <3>2. CASE v # Absent  BY <2>3, <3>2, FalsyObjects
    <3>. QED  BY <3>1, <3>2
  <2>5. found.manifest \in Memberwise  BY <1>5, <2>1 DEF Memberwise
  <2>. QED  BY <1>1, <1>2, <1>3, <2>1, <2>2, <2>3, <2>4, <2>5, MergeObeys
<1>9. ~edited' => LeftAlone'
  BY <1>1, <1>7, <1>8 DEF ContractInv, LeftAlone, Found, Admitted
<1>. QED  BY <1>1, <1>4, <1>9 DEF ContractInv

(* Nothing is said of a project that is edited. *)
LEMMA EditKeeps == ContractInv /\ Edit => ContractInv'
BY DEF Edit, ContractInv, GivenBySomebody, Inputs

(* The invariant holds in every state. *)
THEOREM ContractInvariant == Spec => []ContractInv
<1>1. ContractInv /\ [Next]_vars => ContractInv'
  <2>. SUFFICES ASSUME ContractInv, [Next]_vars  PROVE ContractInv'
    OBVIOUS
  <2>1. CASE ResolveBundle  BY <2>1, ResolveBundleKeeps
  <2>2. CASE EnforceStaticContract  BY <2>2, EnforceStaticContractKeeps
  <2>3. CASE EnforceDeclaredContract  BY <2>3, EnforceDeclaredContractKeeps
  <2>4. CASE ReadManifest  BY <2>4, ReadManifestKeeps
  <2>5. CASE LoadController  BY <2>5, LoadControllerKeeps
  <2>6. CASE \E v \in Patches : Update(v)  BY <2>6, UpdateKeeps
  <2>7. CASE Edit  BY <2>7, EditKeeps
  <2>8. CASE UNCHANGED vars
    BY <2>8 DEF vars, ContractInv, LeftAlone, Found, Admitted, Enforced, ReadsTheSame, Configured,
                KernelInputsFit, UnderContract, Declared, GivenBySomebody, Inputs, InputsFit, ConfigFits,
                Overrides, OverridesOf
  <2>. QED  BY <2>1, <2>2, <2>3, <2>4, <2>5, <2>6, <2>7, <2>8 DEF Next
<1>. QED  BY <1>1, InitContractInv, PTL DEF Spec
-----------------------------------------------------------------------------
(* Every run of a project left alone keeps to the contract its bundle       *)
(* declares: what it was started with, every update it accepted, and the    *)
(* configuration of its controller.                                         *)
THEOREM RunsFit == Spec => []RunsFitTheirContract
<1>1. ContractInv => RunsFitTheirContract
  <2>. SUFFICES ASSUME ContractInv  PROVE RunsFitTheirContract
    OBVIOUS
  <2>1. ASSUME UnderContract("inputs_schema")
        PROVE  IsObj(Given) /\ Obeys(Given, Declared("inputs_schema"))
    <3>1. /\ LeftAlone /\ pc = "running" /\ found # Diagnostic
          /\ IsStandard(found.manifest) /\ Has(found.manifest, "inputs_schema")
      BY <2>1 DEF UnderContract, ContractInv
    <3>2. found.manifest \in Manifests  BY <3>1, FoundManifests
    <3>3. inputs \in Inputs /\ InputsFit(inputs, found.manifest)
      BY <3>1 DEF ContractInv, GivenBySomebody, LeftAlone, Enforced
    <3>. QED  BY <3>1, <3>2, <3>3, FittingInputsObey DEF Given, Declared
  <2>2. ASSUME UnderContract("config_schema")
        PROVE  Obeys(config, Declared("config_schema"))
    <3>1. /\ LeftAlone /\ pc = "running" /\ found # Diagnostic
          /\ IsStandard(found.manifest) /\ Has(found.manifest, "config_schema")
      BY <2>2 DEF UnderContract, ContractInv
    <3>2. found.manifest \in Manifests  BY <3>1, FoundManifests
    <3>3. ConfigFits(found.manifest) /\ config = Merge(Config(found.manifest), Overrides)
      BY <3>1 DEF LeftAlone, Enforced, Configured
    <3>. QED  BY <3>1, <3>2, <3>3, FittingConfigObeys DEF Declared, ContractInv
  <2>. QED  BY <2>1, <2>2 DEF RunsFitTheirContract
<1>. QED  BY <1>1, ContractInvariant, PTL

(* The inputs the kernel has merged from those of the start and of every    *)
(* update satisfy the schema of the inputs, when it does not enumerate the  *)
(* values of the whole.                                                     *)
THEOREM KernelKeepsToTheSchema == Spec => []KernelInputsFit
<1>1. ContractInv => KernelInputsFit
  BY DEF ContractInv, LeftAlone, KernelInputsFit, UnderContract
<1>. QED  BY <1>1, ContractInvariant, PTL

(* No run that a start admits ends because its manifest or its python_path  *)
(* cannot be loaded, unless the project was edited.                         *)
THEOREM AdmittedLoad == Spec => []AdmittedBundlesLoad
<1>1. ContractInv => AdmittedBundlesLoad
  BY DEF ContractInv, LeftAlone, AdmittedBundlesLoad
<1>. QED  BY <1>1, ContractInvariant, PTL

(* A bundle in its place is admitted by its name exactly when it is, as a   *)
(* standard bundle, by its path: in every project, however it is edited.    *)
THEOREM AddressesAgree == Spec => []AddressDoesNotMatter
<1>1. AddressDoesNotMatter
  <2>. SUFFICES ASSUME disk.dir = "plain", disk.file = "regular"
                PROVE  Validates("project:b", disk) <=> Validates("path", disk) /\ IsStandard(disk.manifest)
    BY DEF AddressDoesNotMatter
  <2>. DEFINE b == Bundle(disk.manifest, "b", "bundle", disk.file)
  <2>1. /\ b # NotFound /\ b # Diagnostic /\ b.manifest = disk.manifest /\ b.directory = "b"
    <3>1. b.at = "bundle" /\ b.manifest = disk.manifest /\ b.directory = "b"  BY Fields
    <3>. QED  BY <3>1, Elsewhere
  <2>2. /\ Resolve("project:b", disk) = ByName(disk)
        /\ Resolve("path", disk) = ByPath(disk)
    BY DEF Resolve
  <2>3. ByPath(disk) = IF IsManifest(disk.manifest) /\ (IsStandard(disk.manifest) => disk.python # "outside")
                       THEN b ELSE NotFound
    BY DEF ByPath
  <2>4. ByName(disk) = IF EntryValid(disk) /\ disk.python # "outside" THEN b ELSE NotFound
    BY DEF ByName
  <2>5. StaticOk(b, disk) /\ IsStandard(disk.manifest)
            => disk.manifest.obj.name = Str("b") /\ disk.instructions = "inside" /\ disk.python = "inside"
    BY <2>1 DEF StaticOk, StandardErrors
  <2>6. EntryValid(disk) <=> /\ IsManifest(disk.manifest) /\ IsStandard(disk.manifest)
                             /\ disk.manifest.obj.name = Str("b") /\ disk.instructions # "missing"
    BY DEF EntryValid
  <2>. QED  BY <2>1, <2>2, <2>3, <2>4, <2>5, <2>6 DEF Validates
<1>. QED  BY <1>1, PTL

(* However the project is edited, the controller of a standard bundle is    *)
(* imported from inside its own directory.                                  *)
THEOREM ControllersAreSelfContained == Spec => LoadedIsSelfContained
<1>1. LoadController /\ pc' = "running" /\ found.at = "bundle" /\ IsStandard(disk.manifest)
          => disk.python = "inside"
  <2>. SUFFICES ASSUME LoadController, pc' = "running", found.at = "bundle", IsStandard(disk.manifest)
                PROVE  disk.python = "inside"
    OBVIOUS
  <2>1. found # Diagnostic  BY Elsewhere
  <2>2. ReadAgain({"linked"}) # Absent /\ PathOk(ReadAgain({"linked"}))
    BY <2>1 DEF LoadController, GoTo
  <2>3. ReadAgain({"linked"}) = disk.manifest  BY <2>2 DEF ReadAgain
  <2>. QED  BY <2>2, <2>3 DEF PathOk
<1>. QED  BY <1>1, PTL DEF Spec, LoadedIsSelfContained
=============================================================================
