SPECIFICATION Spec
CONSTANTS
    Bundles <- MCBundles
    Profiles <- MCProfiles
    Forces = {"MUST", "SHOULD"}
    Phrases = {"kev", "known exploited vulnerabilit"}
    Limits = {0, 1, 2, 20}
    AskedControls <- MCControls
    Cves = {"c1", "c2"}
    KeyOrder <- MCKeyOrder
    Missing = Missing
    MaxDepth = 5
INVARIANTS
    CitedIdsAreFound
    SearchMissesNothing
    PlainKevRulesGovern
