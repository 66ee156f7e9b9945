SPECIFICATION Spec
CONSTANTS
  None = None
  OrderedFormats = {"decimal"}
  MinSections = 3
  MinNested = 1
  MinNavigation = 2
  MinPrefaceSections = 2
  MinTurns = 2
  MinEntries = 2
  MinListMarkers = 2
  MaxBlanks = 1
  MaxSpacers = 2
  IndentTolerance = 1
  MinRootHeadings = 3
  MinRootNavigation = 2
  MixedShare = 35
  LaneTolerance = 2
  WidthTolerance = 2
  MinSignals = 7
  MinAccounted = 80
  MaxUnknownBoundaries = 20
  MaxUnknownTypes = 20
  MaxRequest = 2
  MinConfidence = 50
  MaxPerTarget = 2
  BatchSize = 2
  MaxCandidates = 2
  MinRoleF1 = 80
  MinSupported = 80
  MaxUnsupported = 10
  MinValueF1 = 80
  MinSpanF1 = 80
  AllowedTypes <- MCAllowedTypes
  AllowedMethods = {"CALIBRATED"}
  MinRetrievalConfidence = 75
  MaxPerUnit = 3
  MaxSemanticTokens = 4
  Sources <- MCSources
  Policies <- MCPolicies
INVARIANTS
  TextIsUnderstood
  PathsAreOpenHeadings
  EveryElementIsAccountedOnce
  GroupsAreRetrievedWhole
  OnlyFiguresAreUnplaced
  ContinuationsAreChains
  ObservationsAreKept
  OnlyMeasuredIsShown
