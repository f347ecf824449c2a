CONSTANTS
  s1 = s1
  s2 = s2
  NoChoice = NoChoice
  Session = {s1, s2}
  Kind <- CombineAndDisclose
  Needs <- NoNeeds
  Obtainable = {}
  Unsupported = {s2}
  ReturnURL <- FirstInApp
  SecondDevice = {s1}
  Launched = {}
  IOS = TRUE
  FrameLag = FALSE
  MaxPending = 1
  Protected = {s1}
  MaxAttempts = 1
SPECIFICATION FairSpec
INVARIANTS OutcomesAgree
PROPERTIES ImplementsContract NoSessionLeftOpen OutcomeIsDelivered
CHECK_DEADLOCK FALSE
