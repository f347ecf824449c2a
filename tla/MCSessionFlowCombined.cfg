CONSTANTS
  s1 = s1
  s2 = s2
  NoChoice = NoChoice
  Session = {s1, s2}
  Kind <- CombineAndIssue
  Needs <- FirstNeedsSecond
  Obtainable = {s2}
  Unsupported = {}
  ReturnURL <- WebAndPhone
  SecondDevice = {}
  Launched = {s2}
  IOS = TRUE
  FrameLag = FALSE
  MaxPending = 1
  Protected = {s1}
  MaxAttempts = 2
SPECIFICATION Spec
INVARIANTS TypeOK ConsentBeforeDisclosure QuestionIsShown OutcomesAgree
PROPERTIES ImplementsContract
CHECK_DEADLOCK FALSE
