SPECIFICATION FairSpec
CONSTANTS
  r1 = r1
  r2 = r2
  r3 = r3
  r4 = r4
  k1 = k1
  i1 = i1
  NoKey = NoKey
  NoIdem = NoIdem
  Tasks <- FourTasks
  Keys = {k1}
  Ask <- Repeated
  KeyLimit <- LimitOne
  DailyLimit <- NoLimit
  MaxPending = 2
  MaxTried = 1
  MaxStops = 2
INVARIANTS PlacesPerKey NoDuplicateSubmission OnlyUnacceptedVideosStranded IdempotencyHolds PendingBounded
PROPERTIES QueuedTasksSettle ImplementsLifecycle
CHECK_DEADLOCK FALSE
