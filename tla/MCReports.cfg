SPECIFICATION Spec
CONSTANTS
    Procs = {"c1"}
    Names = {"mod_fuzzy_proto", "mod_fuzzy_multi"}
    Default = "mod_fuzzy_proto"
    None = ""
    Objects <- MCObjects
    Instances = {".", "default", "second"}
    Top = "."
    Corpora <- MCCorpora
    Plans <- MCPlans
INVARIANTS ReportsAskedHarness OneMode ReportIsOfItsRun IntrospectionJoinsOneHarness BitcodeCoversTree CallgrindCoversCorpus
