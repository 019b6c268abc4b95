\* Two tabs with a response each; three events on one of them.
\* No deadlock check: the browser's events run out (MaxEvents).
SPECIFICATION FairSpec
CONSTANTS
  r1 = r1
  r2 = r2
  NoRequest = NoRequest
  NumTabs = 2
  MaxEvents <- TwoMaxEvents
  Requests <- TwoRequests
  TabOf <- TwoTabOf
  Payload <- TwoPayload
INVARIANTS SettledTabs DeliveredComplete
PROPERTIES NoResponseHeld
CHECK_DEADLOCK FALSE
