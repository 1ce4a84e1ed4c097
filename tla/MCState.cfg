\* Two turns of a session one after the other, one message buffered, aborts in
\* between: the runner as the dispatch lane drives it.
\* Eight layers of which three are added, two tools, one hook; three
\* broadcasts of two tasks over a channel of two; three spawns, one cleanup.
CONSTANTS
  Runs = {"r1", "r2"}
  Queued = {"q1"}
  Sessions = {"s1"}
  Waiters = {}
  Droppable = {}
  Parallel = 1
  MaxIter = 2
  Preserved = {3}
  KeepLast = 2
  MaxCalls = 1
  Aborts = TRUE
  None = None
  Layers <- SomeLayers
  Tools = {"t", "u"}
  Contexts <- SomeContexts
  MaxLayers = 3
  MaxHooks = 1
  t1 = t1
  t2 = t2
  Tasks = {t1, t2}
  l1 = l1
  Receivers = {l1}
  Updates = {"none", "presence", "both", "custom"}
  Capacity = 2
  MaxSeq = 3
  s1 = s1
  s2 = s2
  s3 = s3
  Spawners = {s1, s2, s3}
  c1 = c1
  Cleaners = {c1}
  Keys = {"k1", "k2"}
  Channels = {"telegram"}
  MaxRows = 3
  MaxStamp = 1
  MaxDepth = 2
  AnnounceBuffer = 1
  MaxIndex = 2
  Readers = {"x", "y", "z"}
  MaxWrites = 2
  Accounts = {"a", "b"}
  PostTexts = {"one", "two"}
  Emoji = {"+"}
  FileMessages <- SomeFileMessages
  MaxPosts = 1
  MaxFiles = 3
  IndexedLists = {"agents", "bindings"}
  KeyedLists = {"channels", "skills"}
  Names = {"a", "b"}
  Tabs = {"gateway", "models"}
  Settings = {"bad", "variable"}
  Invalid = {"bad"}
  Files <- SomeFiles
  MaxUndo = 2
  MaxEntries = 2
  MaxFrames = 5
  Models = {"m1", "m2"}
  Plugins = {"p", "q"}
  Hooks <- SomeHooks
  HookEvents = {"sent", "got"}
  DockIds = {"tg", "own"}
  Folded <- SomeSpellings
  MaxHandles = 2
  MaxDeclared = 2
SPECIFICATION StateSpec
SYMMETRY Symmetry
INVARIANTS EntryIsTheRun  StoreKeepsRows NumbersName
  GreatestVersionIsCurrent KeysAreNotShared OnlyAllowedRun RegistriesHold
  ReloadIsSeen FilesAreOwn DraftHistoryHolds
PROPERTIES TranscriptContinues CleanupReachesAll FormHasEntry
\* Parts end: calls are made once, and what is counted is bounded.
CHECK_DEADLOCK FALSE
