CONSTANTS
  None = None
  Lowered <- SomeLowered
  LowerCase <- SomeLowered
  Words = {"a", "1"}
  Cleaned <- SomeCleaned
  PrunedMark = 2
  TruncatedMark = 3
  Escaped = {"e1"}
  ChatMessages <- SomeMessages
  Histories <- SomeHistories
  CompactConfigs <- SomeCompactConfigs
  SummarySize = 4
  Events <- SomeEvents
  KnownIds = {"A", "a", "b", "@", "default", "w"}
  Segments = {"A", "a", "b"}
  Senders <- SomeSenders
  RoutedSenders <- SomeRouted
  Owner = "A"
  BindingLists <- SomeBindings
  AgentLists <- SomeAgents
  Gateways <- SomeGateways
  OldKeys <- SomeOldKeys
  Sections <- SomeSections
SPECIFICATION Spec
INVARIANTS CompactionKept ContentKept InputAssembled MessagesRouted ConfigurationHolds
\* A behaviour is one call.
CHECK_DEADLOCK FALSE
