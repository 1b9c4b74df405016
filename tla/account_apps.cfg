\* Two requests, at once or one after the other, and one thing people or hosts do.
SPECIFICATION Spec
CONSTANTS
  notion = notion
  send = send
  look = look
  peek = peek
  r1 = r1
  r2 = r2
  Apps <- OneApp
  Actions <- ThreeActions
  AppOf <- OfNotion
  Tags <- Hints
  deniedReads <- Doubted
  Weight <- Light
  AppsBytes = 1
  Requests = {r1, r2}
  MaxStarts = 2
  MaxEvents = 1
  Settings <- LetSend
SYMMETRY Same
INVARIANTS OnePushAtATime TicketWorks SettingsReachMachine AutoIsEarned NothingOfAnOldSession
PROPERTIES ErasedIsGone
CHECK_DEADLOCK FALSE
