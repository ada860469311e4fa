SPECIFICATION MCSpec
CONSTANTS
  Thread = {main, worker}
  Main = main
  Addr = {a1}
  HardCoded = {}
  App = App
  NoThread = NoThread
  NoPoint = NoPoint
  NoEvent = NoEvent
  Elsewhere = Elsewhere
  Stub = Stub
  MaxSuspend = 2
  MaxOrdinary = 1
  MaxWork = 3
  Word = 64
  Null = Null
  Unset = Unset
  SegmentSize = 2
  MaxSourceLocations = 2
  ShortName = 3
  NonData <- MCNonData
  exe = exe
  dll = dll
  Library = {exe, dll}
  MaxEntries = 2
  MaxHits = 1
  Granularity = 1
  MaxInteractive = 2
  MaxFrames = 2
  Images <- MCImages
  Asked = {9, 10, 12, 14, 16, 18, 24, 34}
  Wanted <- MCWanted
  Sources <- MCSources
  Compiled <- MCCompiled
  Frame = 40
  Walks <- MCWalks
  Base = 4
  Int64Size = 8
  PageSize = 4
  Protection <- MCProtection
  SingleUnit = 4
  DoubleUnit = 2
  At = {0, 6, 17}
  NubInts <- MCNubInts
  Floats = {4, 6}
  Registers = {"EAX", "EBP", "ESP", "DS", "FLT0", "FLT1"}
  Frames <- MCFrames
  MaxWrites = 2
  NoValue = NoValue
INVARIANTS BreakpointsAreTransparent SuspensionMatches RunningIsContinued
  LookupsAreTrue
  WrittenIsReadBack
CHECK_DEADLOCK FALSE
