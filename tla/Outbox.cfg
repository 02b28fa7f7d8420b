CONSTANTS
  Events = {e1, e2}
  Handled = {e1}
  Pods = {p1, p2}
  NoEvent = NoEvent
  MaxRetries = 2
  BatchSize = 2
  MaxFaults = 1
  MaxOverruns = 1
SPECIFICATION FairSpec
INVARIANTS
  ProcessedWasHandled
  ExclusiveUnlessReclaimed
  RepeatsExplained
  AttemptsAreBounded
PROPERTIES
  RewrittenOnlyByLateHolder
  SettlesForGood
  ImplementsQueue
  EventuallySettled
