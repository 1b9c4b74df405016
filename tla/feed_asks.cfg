\* One gated call, answered from the app, from the page, or by nobody; the app
\* connects and fetches twice in all.
SPECIFICATION FeedSpec
CONSTANTS
  a1 = a1
  bash = bash
  Calls = {a1}
  Tools = {bash}
  ToolOf <- OneApproval
  KindOf <- OneCard
  None = None
  MaxUses = 1
  MaxTurns = 1
  Offers = {"c0"}
  Typed = {"words"}
  MaxOpens = 2
INVARIANTS ConsentIsPressed ApprovedIsTrue
PROPERTIES ShownAskSettles EveryAskEnds
CHECK_DEADLOCK FALSE
