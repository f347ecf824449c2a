CONSTANTS
  s1 = s1
  s2 = s2
  NoChoice = NoChoice
  Session = {s1, s2}
  Kind <- DiscloseAndIssue
  Needs <- FirstNeedsSecond
  Obtainable = {}
  Unsupported = {}
  ReturnURL <- NoURL
  SecondDevice = {}
  Launched = {}
  IOS = FALSE
  FrameLag = TRUE
  MaxPending = 2
  Protected = {}
  MaxAttempts = 1
SPECIFICATION Spec
INVARIANTS ConsentBeforeDisclosure HandlersInPlace ShownRequestIsCurrent
CHECK_DEADLOCK FALSE
