CONSTANTS
  s1 = s1
  s2 = s2
  NoChoice = NoChoice
  Session = {s1}
  Kind <- OneDiscloses
  Needs <- OneNeedsNothing
  Obtainable = {}
  Unsupported = {}
  ReturnURL <- OneWithoutURL
  SecondDevice = {}
  Launched = {}
  IOS = FALSE
  FrameLag = FALSE
  MaxPending = 1
  Protected = {s1}
  MaxAttempts = 1
SPECIFICATION FairSpec
PROPERTIES BackGestureIsServed
CHECK_DEADLOCK FALSE
