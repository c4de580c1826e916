CONSTANTS
  s1 = s1
  m1 = m1
  Msgs = {m0, m1}
  WebMsgs = {m0}
  Calls <- AllCalls
  AskUnlisted = TRUE
  Notifier = TRUE
  Sessions = {s1}
  Session <- OneSession
  Actions = {i1}
  NoAction = NoAction
  NoSession = NoSession
  MaxDeliveries <- TwiceM1
  MaxIterations = 2
  MaxFails = 1
SPECIFICATION ConfirmFairSpec
INVARIANTS ConfirmTypeOK OneRunPerConfirmation
PROPERTIES ConsentHolds EveryMessageEnds
CHECK_DEADLOCK FALSE
