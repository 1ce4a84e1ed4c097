\* A configuration that is in error is saved without its validation
\* (expected violation).
CONSTANTS
  None = None
  IndexedLists = {"agents", "bindings"}
  KeyedLists = {"channels"}
  Names = {"a"}
  Tabs = {"gateway"}
  Settings = {"bad"}
  Files <- SomeFiles
  Invalid = {"bad"}
  MaxUndo = 1
  MaxEntries = 1
  MaxFrames = 4
SPECIFICATION GuiSpec
INVARIANT OnlyValidIsWritten
CHECK_DEADLOCK FALSE
