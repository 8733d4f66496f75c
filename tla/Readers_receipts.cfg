SPECIFICATION Spec
CONSTANTS
    feedKey = feedKey
    opKey = opKey
    spareKey = spareKey
    Keys = {feedKey, opKey, spareKey}
    Processes = {p}
    p = p
    Authors = {"feed", "op"}
    Feed = "feed"
    FirstKey <- MCFirstKey
    Profiles = {"Providers", "Agencies"}
    Commands <- AllCommands
    Bundles = {"b1", "b2"}
    Contents = {"good", "bad"}
    Paths = {"package"}
    NameOf <- MCNameOf
    Select <- MCSelect
    Conforms <- MCConforms
    RequiredBy <- MCRequiredBy
    MaxVersions = 2
    MaxReceipts = 1
    MaxMishaps = 1
INVARIANTS
    TypeOK
    CitationNeverAhead
    IssuedOnValidChains
    HonestReceiptsPass
    SealedFieldsHold
