CONSTANTS
  Handlers = {h1, h2}
  Timers = {t1}
  Sync = sync
  None = None
  channelBufferSize = 2
  MaxVersion = 2
  MaxStreams = 2
  MaxTokens = 2
SPECIFICATION FairSpec
INVARIANTS
  LagHasCause
PROPERTIES
  EventuallyCurrent
  ImplementsUpdateStream
CHECK_DEADLOCK FALSE
