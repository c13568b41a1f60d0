SPECIFICATION ComponentsSpec
CONSTANTS
  Doc = {"p", "q"}
  Version = {"v1", "v2"}
  EdgesOf <- MCEdgesOf
  RowID = {"i", "j", "k"}
  RowsOf <- MCRowsOf
  Nothing = Nothing
  DefaultLimit = 2
  MaxRows = 6
  NoCursor = NoCursor
  DocumentPath = {"a", "b", "c"}
  MaxScans = 3
  NoScan = NoScan
  ManifestFile = {"f", "g", "h"}
  Definition = {"f", "g", "h"}
  MaxDepth = 1
  Command = {c1, c2}
  Missing = Missing
  Old = Old
  Source = Source
  Entry = {1, 2, 3, 4}
  Skipped = {2}
  Contents <- MCContents
  MaxBytes = 5
  Gone = Gone
  Nobody = Nobody
  Half = 4
  Failed = Failed
  Absent = Absent
  SourceFile = {"s1", "s2", "s3", "s4", "s5", "s6"}
  Readable = {"s1", "s2", "s3", "s6"}
  Optional = {"s5"}
  FilesOf <- MCFilesOf
  StartupFiles <- MCStartupFiles
  ErrorsOf <- MCErrorsOf
  SourceLine <- MCSourceLine
  MaxLines = 5
  MaxOperators = 2
  MaxEntries = 4
  MaxFiles = 3
  NoPlace = NoPlace
  FileText <- MCFileText
  PossibleEdit <- MCPossibleEdit
  MaxEdits = 3
  Literals = {1}
  Inputs <- MCInputs
  MaxResults = 3
  PathStep = {"0", "1", "a", "b"}
  Read <- MCRead
  Snapshot <- MCSnapshot
  Process = {p1, p2}
  Identity = {old, new}
  Faults = {"crash", "cancel", "io", "read", "rot"}
  None = None
  NoID = NoID
  Null = Null
  Empty = "empty"
  Text <- MCText
  PathOrder <- MCPathOrder
  Plan <- MCPlan
  Root = {"w1", "w2"}
  File = {"a", "b"}
  Content = {0, 1, 2}
  Hand <- MCHand
  Call <- MCCall
  Metadata <- MCMetadata
  MaxPreviews = 2
INVARIANTS CommittedWhole OwnEdgesKept EveryRowOnce PagesMoveForward ExactlyDependents
  NewestScanKept ManifestComplete OutputWhole FindsStateChanges ExportsEach KeysShared
  ExpressionsRead VerdictsFinal DifferencesFound CountsSourcesOnce PatchedAsWritten
  TypeOK OneWriter LockReleased OwnIndex
  AnswersOpenText QueriesAgree DiagnosticsAgree AnsweredInOrder OneWritePerPreview
PROPERTIES SearchEnds SnapshotNotices ServerWritesPlanned FailuresChangeNothing
CHECK_DEADLOCK FALSE
