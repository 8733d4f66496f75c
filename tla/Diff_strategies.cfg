SPECIFICATION Spec
CONSTANTS
  Sources <- SourceNames
  Docs <- Worlds
  Profiles <- SomeProfiles
  Missing = Missing
  MaxDepth = 5
  KeyOrder <- KeysInOrder
  MaxPointers = 3
  Absent = Absent
  NoDoc = NoDoc
  NoBundle = NoBundle
  NoThreshold = NoThreshold
INVARIANTS
  ObligationMovesAreMajor
  ForceShiftsAreHighlighted
  WideProfileMissesNothing
  DeltaReplays
  ImpactShowsBindingShifts
  ReferencedMovesAreMajor
  MajorTouchesReferenced
  ListMembershipIsMinor
  ProductEventsAreMinor
  EveryDifferenceIsPointedAt
