SPECIFICATION FairSpec
CONSTANTS
  Interactions = {i1}
  Mentions = {}
  Pushes = {}
  Notifications = {}
  NoEvent = NoEvent
  Receivers = {r1}
  Workers = {w1, w2}
  BufferSize = 1
  BatchSize = 2
  ECRConcurrency = 1
  StreamMaxLen = 1
  ArgoCDEnabled = FALSE
  MaxSends <- SentTwice
  MaxFailures = 1
  MaxCrashes = 1
  MaxLapsed = 9
INVARIANT SettledInteractionIsKept
PROPERTY SettledInteractionIsHandled
PROPERTY BufferedIsHandled
PROPERTY ImplementsDelivery
