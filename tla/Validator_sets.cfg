SPECIFICATION Spec
CONSTANTS
    Files = {"common", "report", "absent"}
    Defs = {"a", "b"}
    Root <- RootName
    Rules <- MCRules
    SchemaSets <- MCSchemaSets
INVARIANTS
    ReportsEveryRepair
    SoundSchemasCompile
