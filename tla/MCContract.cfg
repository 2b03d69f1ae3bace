CONSTANTS
    MaxSchemaDepth = 2
    MaxValueDepth = 3
    MaxManifestDepth = 7
    MaxTextChars = 4
    Names = {"b", "x"}
    Entrypoints = {"m:f"}
    Versions = {"1"}
    Variables = {"KEY"}
    IsManifest <- WellFormed
    Meets <- ValidateValue
    DefaultsMeet <- ValidateDefaults
    Obeys <- Satisfies
    IsFinite <- AllFinite
    Objects <- Merged
    Disks <- Contents
    Requests <- Asked
    Patches <- Values
    MaxUpdates = 2
    Edits <- Edited
SPECIFICATION Spec
INVARIANTS
    RunsFitTheirContract
    KernelInputsFit
    StrictImpliesLegacy
    StaticDefaultsSuffice
    AddressDoesNotMatter
    AdmittedBundlesLoad
PROPERTIES
    LoadedIsSelfContained
CHECK_DEADLOCK FALSE
