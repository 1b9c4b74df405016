\* One hand; the page comes twice; two streams are lost or the guest restarts.
SPECIFICATION FairSpec
CONSTANTS
  Hands = {h1}
  Consumers = {1, 2}
  HubBuffer = 1
  PageBuffer = 2
  MaxVisits = 2
  MaxBreaks = 2
INVARIANTS BoardAgrees PageAgrees
PROPERTIES UpIsSeen BoardPromise
CHECK_DEADLOCK FALSE
