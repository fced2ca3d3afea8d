SPECIFICATION Spec
CONSTANTS
    Procs = {"c1", "c2"}
    Names = {"mod_fuzzy_proto", "mod_fuzzy_multi"}
    Default = "mod_fuzzy_proto"
    None = ""
    Objects <- MCObjects
INVARIANTS FuzzerKeepsItsModules
