SPECIFICATION Spec
CONSTANTS
  Interactions = {}
  Mentions = {m1}
  Pushes = {p1}
  Notifications = {n1}
  NoEvent = NoEvent
  Receivers = {r1}
  Workers = {w1}
  BufferSize = 1
  BatchSize = 2
  ECRConcurrency = 1
  StreamMaxLen = 1
  ArgoCDEnabled = TRUE
  MaxSends <- MentionsOnce
  MaxFailures = 2
  MaxCrashes = 0
  MaxLapsed = 0
INVARIANT AccountedWhileReceiversLive
INVARIANT OnceWhileHealthy
