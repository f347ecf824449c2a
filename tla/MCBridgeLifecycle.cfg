CONSTANTS
  Activity = {a1, a2}
  NoActivity = NoActivity
  Link = {l1, l2}
  NoLink = NoLink
  MaxSessions = 1
SPECIFICATION FairSpec
INVARIANTS TypeOK Sealed BlockedOnlyWhenUndercut FatalOrKnown AnswersReachOwnSession SessionsAreUnderWay PointerIsLatest
PROPERTIES AppReadyIsAnswered LinkArrives
CHECK_DEADLOCK FALSE
