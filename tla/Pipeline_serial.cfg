SPECIFICATION Spec
CONSTANTS
  s1 = s1
  s2 = s2
  good = good
  stray = stray
  Sources = {s1, s2}
  Substances = {old, new}
  Volatiles = {mon, tue}
  Absent = Absent
  NoDoc = NoDoc
  NoBundle = NoBundle
  NoThreshold = NoThreshold
  Rules = s1
  DiffSeverity <- MCDiffSeverity
  Runners = {r1, r2}
  Keys = {good, stray}
  Registered = {good}
  Commands <- SigningCommands
  Builds <- TwoBuilds
  FailOn <- RoutineThreshold
  Serialized = TRUE
  MaxCommits = 2
  MaxForced = 1
  MaxInterrupts = 1
SYMMETRY Interchangeable
INVARIANTS
  TypeOK
  PinsExplainContent
  MessagesTruthful
  PinsNeverRegress
  ReportedVersionIsSigned
  PublishedTreeAgrees
PROPERTIES
  NoIdleVersion
  ImplementsLedger
